---- MODULE Spec2Model ----
(***************************************************************************)
(* Asset Materializer of genie-trusted-asset-copilot.                      *)
(*                                                                         *)
(* SpecRetry : TrustedAssetCreator._create_function_with_retry for one     *)
(*             candidate, one step per external call (statement submit,    *)
(*             status poll, SQL correction, tagging, smoke test), together *)
(*             with the execution engine that owns the statements.         *)
(* Spec      : run / create_all / create_uc_functions with the worker      *)
(*             pool; a worker task is one whole call of                    *)
(*             _create_function_with_retry.                                *)
(***************************************************************************)
EXTENDS Integers, Sequences, FiniteSets, TLC

\* ------------------------------------------------------------------------
\* Program constants
\* ------------------------------------------------------------------------
max_poll_attempts == 30
max_poll_attempts_smoke == 10
DefaultMaxRetries == 2
DefaultNumWorkers == 4
NameWords == 5
NameLimit == 50

\* ------------------------------------------------------------------------
\* Bounds of the model
\* ------------------------------------------------------------------------
MaxBatch == 3
MaxWorkers == 2
MaxRegistryBatch == 2
MaxLog == 5
MaxPages == 2
MaxPageSize == 2
MaxQueries == 3

\* ------------------------------------------------------------------------
\* Text: a string is a sequence of one-character strings
\* ------------------------------------------------------------------------
UpperChars == <<"A", "B", "C", "D", "E", "F", "G", "H", "I", "J", "K", "L", "M",
                "N", "O", "P", "Q", "R", "S", "T", "U", "V", "W", "X", "Y", "Z">>
LowerChars == <<"a", "b", "c", "d", "e", "f", "g", "h", "i", "j", "k", "l", "m",
                "n", "o", "p", "q", "r", "s", "t", "u", "v", "w", "x", "y", "z">>
DigitChars == {"0", "1", "2", "3", "4", "5", "6", "7", "8", "9"}
SpaceChars == {" ", "\t", "\n"}

Range(s) == {s[i] : i \in DOMAIN s}

Min(a, b) == IF a <= b THEN a ELSE b

\* str.lower() on one character
LowerChar(c) ==
    IF \E i \in DOMAIN UpperChars : UpperChars[i] = c
    THEN LowerChars[CHOOSE i \in DOMAIN UpperChars : UpperChars[i] = c]
    ELSE c

Lower(s) == [i \in DOMAIN s |-> LowerChar(s[i])]

\* str.split(): the maximal runs of non-whitespace characters
RECURSIVE SplitFrom(_, _, _, _)
SplitFrom(s, i, word, words) ==
    IF i > Len(s)
    THEN IF word = <<>> THEN words ELSE Append(words, word)
    ELSE IF s[i] \in SpaceChars
         THEN SplitFrom(s, i + 1, <<>>,
                        IF word = <<>> THEN words ELSE Append(words, word))
         ELSE SplitFrom(s, i + 1, Append(word, s[i]), words)

Split(s) == SplitFrom(s, 1, <<>>, <<>>)

\* "_".join(words)
RECURSIVE Join(_)
Join(words) ==
    IF words = <<>> THEN <<>>
    ELSE IF Len(words) = 1 THEN words[1]
    ELSE words[1] \o <<"_">> \o Join(Tail(words))

\* re.sub(r"[^a-z0-9_]", "", name)
NameChar(c) == c \in Range(LowerChars) \cup DigitChars \cup {"_"}

StripNonName(s) == SelectSeq(s, NameChar)

Prefix(s, n) == SubSeq(s, 1, Min(n, Len(s)))

GeniePrefix == <<"g", "e", "n", "i", "e", "_">>
FnPrefix == <<"f", "n", "_">>

\* TrustedAssetCreator._sanitize_function_name
SanitizeGuardDigit(name) ==
    IF name # <<>> /\ name[1] \in DigitChars THEN FnPrefix \o name ELSE name

SanitizeFunctionName(question) ==
    LET words == Prefix(Split(Lower(question)), NameWords)
        name == StripNonName(Join(words))
    IN  GeniePrefix \o Prefix(SanitizeGuardDigit(name), NameLimit)


\* ------------------------------------------------------------------------
\* Candidates (models.TrustedAssetCandidate: question and parameter list)
\* ------------------------------------------------------------------------
QTopSales == <<"T", "o", "p", " ", "5", " ", "s", "a", "l", "e", "s">>
QTopSalesAgain == <<"t", "o", "p", " ", " ", "5", " ", "S", "A", "L", "E", "S", "?">>
QNineLives == <<"9", " ", "l", "i", "v", "e", "s">>
QOrders == <<"O", "r", "d", "e", "r", "s", "\t", "b", "y", "-", "d", "a", "y">>

Candidates ==
    { [question |-> QTopSales, parameters |-> <<"region">>],
      [question |-> QTopSalesAgain, parameters |-> <<>>],
      [question |-> QNineLives, parameters |-> <<>>],
      [question |-> QOrders, parameters |-> <<"day">>] }

\* the candidates the registration calls are explored with: the first two
\* questions differ in case and spacing only
QTopSalesSpaced == <<"T", "O", "P", " ", "5", " ", " ", "s", "a", "l", "e", "s">>

RegistryCandidates ==
    { [question |-> QTopSales, parameters |-> <<"region">>],
      [question |-> QTopSalesSpaced, parameters |-> <<>>],
      [question |-> QOrders, parameters |-> <<"day">>] }

AllCandidates == Candidates \cup RegistryCandidates

\* ------------------------------------------------------------------------
\* Values exchanged with the execution engine and the correction service
\* ------------------------------------------------------------------------
None == "None"

PendingStates == {"PENDING", "RUNNING"}
StatementStates == {"PENDING", "RUNNING", "SUCCEEDED", "FAILED"}

\* text of an exception: <<origin, message>>
NoError == <<"none", "">>
TimeoutError == <<"timeout", "Statement execution timed out after 60s">>
ConnectionError == <<"raised", "connection error">>
EngineMessages == {"syntax error", "Unknown error"}
FailedError(msg) == <<"failed", msg>>

\* create statements, by text
ParamSql == "create f(p) return parameterized_sql"
PlainSql == "create f() return sql"
ZeroParamSql == "create f() return (sql)"
FixedSqls == {"corrected 1", "corrected 2"}
Break == "break"

\* _generate_function_sql: the statement of the first attempt
GenerateFunctionSql(candidate) ==
    IF candidate.parameters # <<>> THEN ParamSql ELSE PlainSql

\* what _attempt_sql_correction can return: None when the call raised, the
\* stripped text of the response otherwise (possibly empty, possibly the
\* failing statement itself)
CorrectionResults(candidate) ==
    {None, ""} \cup {GenerateFunctionSql(candidate), ZeroParamSql} \cup FixedSqls

\* ------------------------------------------------------------------------
\* _create_function_with_retry: the decisions of the except handler
\* ------------------------------------------------------------------------
\* faulty variants of line 839: one attempt too many, one too few
HasRetriesLeftInclusive(a, m) == a <= m

HasRetriesLeftShort(a, m) == a < m - 1

\* line 839: if attempt < max_retries
HasRetriesLeft(a, m) == a < m

\* faulty variant of lines 841-860: the fallback is not tied to the first attempt
AfterFailureAnyAttempt(candidate, sql, corrected, a) ==
    IF corrected \notin {None, ""} /\ corrected # sql
    THEN corrected
    ELSE IF candidate.parameters # <<>>
         THEN ZeroParamSql
         ELSE Break

\* faulty variant of line 841: the correction is applied without comparing
\* it with the failing statement
AfterFailureUnchanged(candidate, sql, corrected, a) ==
    IF corrected \notin {None, ""}
    THEN corrected
    ELSE IF candidate.parameters # <<>> /\ a = 0
         THEN ZeroParamSql
         ELSE Break

\* lines 841-860: the statement of the next attempt, or Break
AfterFailure(candidate, sql, corrected, a) ==
    IF corrected \notin {None, ""} /\ corrected # sql
    THEN corrected
    ELSE IF candidate.parameters # <<>> /\ a = 0
         THEN ZeroParamSql
         ELSE Break

\* faulty variant of line 785: > for >=
PollCeilingReachedLate(p) == p > max_poll_attempts

\* line 785: if poll_attempts >= max_poll_attempts
PollCeilingReached(p) == p >= max_poll_attempts

\* line 929 (smoke test)
TestPollCeilingReached(p) == p >= max_poll_attempts_smoke

\* lines 814-818
SuccessResult(name) ==
    [success |-> TRUE, asset_type |-> "uc_function", name |-> name,
     error |-> [attempts |-> 0, cause |-> NoError]]

\* lines 863-868: "Failed after {max_retries + 1} attempts: {last_error}"
ExhaustedResult(name, m, err) ==
    [success |-> FALSE, asset_type |-> "uc_function", name |-> name,
     error |-> [attempts |-> m + 1, cause |-> err]]

NoResult ==
    [success |-> FALSE, asset_type |-> "none", name |-> <<>>,
     error |-> [attempts |-> 0, cause |-> NoError]]

\* ------------------------------------------------------------------------
\* State
\* ------------------------------------------------------------------------
VARIABLES
    cand,               \* the candidate of _create_function_with_retry
    max_retries,        \* its retry budget
    pc,                 \* position inside _create_function_with_retry
    attempt,            \* loop variable of the for loop
    current_sql,        \* statement the next attempt submits
    last_error,         \* text of the last exception caught
    poll_attempts,      \* polls of the current attempt
    test_poll_attempts, \* polls of the smoke test
    statements,         \* every create statement handed to execute_statement,
                        \* in order, with its state at the engine
    raised,             \* text of the latest exception raised in the try block
    failures,           \* number of exceptions raised in the try block
    corrected_sql,      \* what _attempt_sql_correction returned last
    tags_set,           \* outcome of _set_function_tags
    smoke,              \* outcome of _test_function
    result,             \* the CreationResult returned
    caller,             \* who starts the run: "cli", "notebook" or "api"
    configured,         \* worker-pool width the caller asks for, 0 for none
    candidates,         \* the candidate batch handed to create_all
    dry_run,            \* create_all's dry_run
    create_uc_functions,    \* create_all's feature toggle
    register_uc_functions,  \* create_all's feature toggle
    warehouse_id,       \* TRUE when an execution-engine handle is configured
    num_workers,        \* max_workers of the pools of this run
    phase,              \* position inside run / create_all
    futures,            \* the tasks submitted to the pool of create_uc_functions
    results,            \* the list create_uc_functions builds
    uc_results,         \* create_all's uc_results
    created_functions,  \* argument of register_functions_with_genie
    registry,           \* the registry document held by the knowledge base
    force,              \* create_all's force
    create_sql_instructions,    \* create_all's feature toggle
    config,             \* the document a registration call read and edits
    candidates_to_process,      \* create_trusted_assets' filtered batch
    indices_to_remove,  \* indices marked for replacement by the call
    guidance_futures,   \* the tasks of the usage-guidance pool
    trusted_results,    \* the list create_trusted_assets builds
    register_results,   \* the list register_functions_with_genie builds
    writes,             \* the update_space calls issued by this run, in order
    run_no,             \* "first" or "second" run against the registry
    applied,            \* the first run applied everything, without force
    runs,               \* the concurrent calls of create_trusted_assets
    written_by,         \* the calls whose update_space returned, in order
    guidance_map,       \* create_trusted_assets' guidance_map
    new_examples,       \* create_trusted_assets' new_examples
    conversations,      \* what list_conversations returned, each conversation
                        \* with the messages get_conversation_messages gives
    conv_no,            \* position of extract_all_queries' outer loop
    msg_no,             \* position of its inner loop
    last_user_question, \* extract_all_queries' pending question
    seen_questions,     \* its set of normalized questions
    queries,            \* the list it builds
    duplicates_skipped, \* its counter of dropped duplicates
    call,               \* a call of one function: its name and arguments
    returned            \* what the call returned or raised

retryVars == <<cand, max_retries, pc, attempt, current_sql, last_error,
               poll_attempts, test_poll_attempts, statements, raised,
               failures, corrected_sql, tags_set, smoke, result>>

runVars == <<caller, configured, candidates, dry_run, create_uc_functions,
             register_uc_functions, warehouse_id, num_workers, phase, futures,
             results, uc_results, created_functions>>

regVars == <<registry, force, create_sql_instructions, config,
             candidates_to_process, indices_to_remove, guidance_futures,
             trusted_results, register_results, writes, run_no, applied>>

raceVars == <<runs, written_by>>

guidanceVars == <<guidance_map, new_examples>>

readerVars == <<conversations, conv_no, msg_no, last_user_question,
                seen_questions, queries, duplicates_skipped>>

callVars == <<call, returned>>

pipelineVars == <<raceVars, guidanceVars, readerVars, callVars>>

vars == <<retryVars, runVars, regVars, pipelineVars>>

RaceIdle ==
    /\ runs = <<>>
    /\ written_by = <<>>

GuidanceIdle ==
    /\ guidance_map = <<>>
    /\ new_examples = <<>>

\* extract_all_queries is not running
ReaderIdle ==
    /\ conversations = <<>>
    /\ conv_no = 0
    /\ msg_no = 0
    /\ last_user_question = None
    /\ seen_questions = {}
    /\ queries = <<>>
    /\ duplicates_skipped = 0

\* no single function is called
CallIdle ==
    /\ call = [fn |-> "none"]
    /\ returned = [status |-> "pending"]

\* nothing but one run of the creator is going on
PipelineIdle ==
    /\ RaceIdle
    /\ GuidanceIdle
    /\ ReaderIdle
    /\ CallIdle

\* the registry document: the example entries and the registered functions
EmptyDocument == [examples |-> <<>>, functions |-> <<>>]

\* no registration call is in progress
RegistryIdle ==
    /\ registry = EmptyDocument
    /\ force = FALSE
    /\ create_sql_instructions = FALSE
    /\ config = None
    /\ candidates_to_process = <<>>
    /\ indices_to_remove = <<>>
    /\ guidance_futures = <<>>
    /\ trusted_results = <<>>
    /\ register_results = <<>>
    /\ writes = <<>>
    /\ run_no = "first"
    /\ applied = FALSE

\* func_name of each candidate (lines 629 and 763)
FunctionNames ==
    [c \in AllCandidates |-> SanitizeFunctionName(c.question)]

func_name == FunctionNames[cand]

\* the candidates _create_function_with_retry is explored with
RetryCandidates == {c \in Candidates : c.question \in {QTopSales, QNineLives}}

\* ------------------------------------------------------------------------
\* _create_function_with_retry, step by step
\* ------------------------------------------------------------------------
\* no run is in progress
RunIdle ==
    /\ caller = "api"
    /\ configured = 0
    /\ candidates = <<>>
    /\ dry_run = FALSE
    /\ create_uc_functions = FALSE
    /\ register_uc_functions = FALSE
    /\ warehouse_id = FALSE
    /\ num_workers = DefaultNumWorkers
    /\ phase = "idle"
    /\ futures = <<>>
    /\ results = <<>>
    /\ uc_results = <<>>
    /\ created_functions = <<>>

InitRetry ==
    /\ PipelineIdle
    /\ RunIdle
    /\ RegistryIdle
    /\ cand \in RetryCandidates
    /\ max_retries \in 0..DefaultMaxRetries
    /\ pc = "draft"
    /\ attempt = 0
    /\ current_sql = None
    /\ last_error = NoError
    /\ poll_attempts = 0
    /\ test_poll_attempts = 0
    /\ statements = <<>>
    /\ raised = NoError
    /\ failures = 0
    /\ corrected_sql = None
    /\ tags_set = None
    /\ smoke = None
    /\ result = NoResult

\* lines 763-766
Draft ==
    /\ pc = "draft"
    /\ current_sql' = GenerateFunctionSql(cand)
    /\ pc' = "submit"
    /\ UNCHANGED <<cand, max_retries, attempt, last_error, poll_attempts,
                   test_poll_attempts, statements, raised, failures,
                   corrected_sql, tags_set, smoke, result, runVars, regVars, pipelineVars>>

\* lines 834-839 and 862-868: the exception e is caught; with no retry left
\* the loop ends and the failed outcome is returned
Caught(e) ==
    /\ last_error' = e
    /\ IF HasRetriesLeft(attempt, max_retries)
       THEN pc' = "correct" /\ result' = result
       ELSE pc' = "done" /\ result' = ExhaustedResult(func_name, max_retries, e)

\* an exception with text e is raised inside the try block
Raise(e) ==
    /\ raised' = e
    /\ failures' = failures + 1
    /\ Caught(e)

\* lines 793-808: the loop is left with a terminal state
Terminal(state) ==
    IF state = "SUCCEEDED"
    THEN /\ pc' = "tags"
         /\ UNCHANGED <<last_error, raised, failures, result>>
    ELSE \E msg \in EngineMessages : Raise(FailedError(msg))

\* lines 773-779: execute_statement raises, no statement exists at the engine
\* (corrected_sql is dead from here to the next correction, line 840)
SubmitRaises ==
    /\ pc = "submit"
    /\ statements' = Append(statements,
                            [statement |-> current_sql, state |-> "REJECTED"])
    /\ corrected_sql' = None
    /\ Raise(ConnectionError)
    /\ UNCHANGED <<cand, max_retries, attempt, current_sql, poll_attempts,
                   test_poll_attempts, tags_set, smoke, runVars, regVars, pipelineVars>>

\* lines 773-784: execute_statement returns the state reached within the
\* wait timeout
Submit ==
    /\ pc = "submit"
    /\ \E state \in StatementStates :
        /\ statements' = Append(statements,
                                [statement |-> current_sql, state |-> state])
        /\ IF state \in PendingStates
           THEN /\ pc' = "poll"
                /\ UNCHANGED <<last_error, raised, failures, result>>
           ELSE Terminal(state)
    /\ poll_attempts' = 0
    /\ corrected_sql' = None
    /\ UNCHANGED <<cand, max_retries, attempt, current_sql,
                   test_poll_attempts, tags_set, smoke, runVars, regVars, pipelineVars>>

\* lines 785-786: the polling ceiling (poll_attempts is dead afterwards and
\* is set again by the next attempt, line 783)
PollTimeout ==
    /\ pc = "poll"
    /\ PollCeilingReached(poll_attempts)
    /\ Raise(TimeoutError)
    /\ poll_attempts' = 0
    /\ UNCHANGED <<cand, max_retries, attempt, current_sql,
                   test_poll_attempts, statements, corrected_sql, tags_set,
                   smoke, runVars, regVars, pipelineVars>>

\* lines 788-791: one more poll; get_statement reads the engine's state
Poll ==
    /\ pc = "poll"
    /\ ~PollCeilingReached(poll_attempts)
    /\ LET state == statements[Len(statements)].state
       IN  IF state \in PendingStates
           THEN /\ poll_attempts' = poll_attempts + 1
                /\ UNCHANGED <<pc, last_error, raised, failures, result>>
           ELSE /\ poll_attempts' = 0
                /\ Terminal(state)
    /\ UNCHANGED <<cand, max_retries, attempt, current_sql,
                   test_poll_attempts, statements, corrected_sql, tags_set,
                   smoke, runVars, regVars, pipelineVars>>

\* line 790: get_statement raises
PollRaises ==
    /\ pc = "poll"
    /\ ~PollCeilingReached(poll_attempts)
    /\ poll_attempts' = 0
    /\ Raise(ConnectionError)
    /\ UNCHANGED <<cand, max_retries, attempt, current_sql,
                   test_poll_attempts, statements, corrected_sql, tags_set,
                   smoke, runVars, regVars, pipelineVars>>

\* lines 840-860: ask for a correction and choose the next statement
Correct ==
    /\ pc = "correct"
    /\ \E corrected \in CorrectionResults(cand) :
        LET next == AfterFailure(cand, current_sql, corrected, attempt)
        IN  /\ corrected_sql' = corrected
            /\ IF next = Break
               THEN /\ pc' = "done"
                    /\ result' = ExhaustedResult(func_name, max_retries,
                                                 last_error)
                    /\ UNCHANGED <<attempt, current_sql>>
               ELSE /\ pc' = "submit"
                    /\ current_sql' = next
                    /\ attempt' = attempt + 1
                    /\ result' = result
    /\ UNCHANGED <<cand, max_retries, last_error, poll_attempts,
                   test_poll_attempts, statements, raised, failures,
                   tags_set, smoke, runVars, regVars, pipelineVars>>

\* line 811, _set_function_tags: a failure is caught and logged
SetFunctionTags ==
    /\ pc = "tags"
    /\ tags_set' \in {"ok", "raised"}
    /\ pc' = "test"
    /\ UNCHANGED <<cand, max_retries, attempt, current_sql, last_error,
                   poll_attempts, test_poll_attempts, statements, raised,
                   failures, corrected_sql, smoke, result, runVars, regVars, pipelineVars>>

\* faulty variant of lines 814-832: the smoke test decides the outcome
TestedGating(outcome) ==
    /\ smoke' = outcome
    /\ pc' = "done"
    /\ result' = IF outcome = "passed"
                 THEN SuccessResult(func_name)
                 ELSE ExhaustedResult(func_name, max_retries, <<"smoke", outcome>>)
    /\ test_poll_attempts' = 0

\* lines 814-832: whatever the smoke test says, the outcome is the success
Tested(outcome) ==
    /\ smoke' = outcome
    /\ pc' = "done"
    /\ result' = SuccessResult(func_name)
    /\ test_poll_attempts' = 0

\* _test_function, lines 917-947: DESCRIBE FUNCTION is submitted
TestFunction ==
    /\ pc = "test"
    /\ \/ Tested("exception")
       \/ Tested("passed")
       \/ Tested("failed")
       \/ /\ pc' = "test_poll"
          /\ test_poll_attempts' = 0
          /\ UNCHANGED <<smoke, result>>
    /\ UNCHANGED <<cand, max_retries, attempt, current_sql, last_error,
                   poll_attempts, statements, raised, failures,
                   corrected_sql, tags_set, runVars, regVars, pipelineVars>>

\* _test_function, lines 928-934: the polling loop of the smoke test
TestPoll ==
    /\ pc = "test_poll"
    /\ IF TestPollCeilingReached(test_poll_attempts)
       THEN Tested("timeout")
       ELSE \/ /\ test_poll_attempts' = test_poll_attempts + 1
               /\ UNCHANGED <<pc, smoke, result>>
            \/ Tested("passed")
            \/ Tested("failed")
            \/ Tested("exception")
    /\ UNCHANGED <<cand, max_retries, attempt, current_sql, last_error,
                   poll_attempts, statements, raised, failures,
                   corrected_sql, tags_set, runVars, regVars, pipelineVars>>

\* the execution engine works on a statement it accepted
EngineAdvance ==
    /\ \E k \in DOMAIN statements :
        /\ statements[k].state \in PendingStates
        /\ \E state \in StatementStates \ {"PENDING", statements[k].state} :
            statements' = [statements EXCEPT ![k].state = state]
    /\ UNCHANGED <<cand, max_retries, pc, attempt, current_sql, last_error,
                   poll_attempts, test_poll_attempts, raised, failures,
                   corrected_sql, tags_set, smoke, result, runVars, regVars, pipelineVars>>

RetryStep ==
    \/ Draft
    \/ Submit
    \/ SubmitRaises
    \/ Poll
    \/ PollRaises
    \/ PollTimeout
    \/ Correct
    \/ SetFunctionTags
    \/ TestFunction
    \/ TestPoll

NextRetry ==
    \/ RetryStep
    \/ EngineAdvance

SpecRetry == InitRetry /\ [][NextRetry]_vars

\* ------------------------------------------------------------------------
\* _create_function_with_retry as one call: the outcomes it can return
\* ------------------------------------------------------------------------
\* what an attempt can raise: lines 773-806
AttemptErrors ==
    {TimeoutError, ConnectionError} \cup {FailedError(msg) : msg \in EngineMessages}

\* lines 768-868 from attempt a on, the statement of that attempt being sql
RECURSIVE RetryOutcomes(_, _, _, _)
RetryOutcomes(candidate, m, a, sql) ==
    LET name == FunctionNames[candidate]
        failed(e) ==
            IF HasRetriesLeft(a, m)
            THEN UNION { LET next == AfterFailure(candidate, sql, corrected, a)
                         IN  IF next = Break
                             THEN {ExhaustedResult(name, m, e)}
                             ELSE RetryOutcomes(candidate, m, a + 1, next)
                         : corrected \in CorrectionResults(candidate) }
            ELSE {ExhaustedResult(name, m, e)}
    IN  {SuccessResult(name)} \cup UNION {failed(e) : e \in AttemptErrors}

CreateFunctionWithRetry(candidate, m) ==
    RetryOutcomes(candidate, m, 0, GenerateFunctionSql(candidate))

\* the outcomes of _create_function_with_retry(candidate, max_retries)
RetryOutcomeTable ==
    [c \in AllCandidates |->
        [m \in 0..DefaultMaxRetries |-> CreateFunctionWithRetry(c, m)]]

\* the outcomes of the call executor.submit(..., candidate, 2), line 1028
TaskOutcomes ==
    [c \in AllCandidates |-> RetryOutcomeTable[c][DefaultMaxRetries]]

\* ------------------------------------------------------------------------
\* create_uc_functions and create_all: pure parts
\* ------------------------------------------------------------------------
\* lines 987-997: keep the first candidate of every derived function name
RECURSIVE UniqueFrom(_, _, _, _)
UniqueFrom(cs, i, seen_names, unique_candidates) ==
    IF i > Len(cs) THEN unique_candidates
    ELSE LET name == FunctionNames[cs[i]]
         IN  IF name \notin seen_names
             THEN UniqueFrom(cs, i + 1, seen_names \cup {name},
                             Append(unique_candidates, cs[i]))
             ELSE UniqueFrom(cs, i + 1, seen_names, unique_candidates)

\* faulty variant of lines 987-997: duplicates recognised by question text
RECURSIVE UniqueByQuestionFrom(_, _, _, _)
UniqueByQuestionFrom(cs, i, seen, unique_candidates) ==
    IF i > Len(cs) THEN unique_candidates
    ELSE IF cs[i].question \notin seen
         THEN UniqueByQuestionFrom(cs, i + 1, seen \cup {cs[i].question},
                                   Append(unique_candidates, cs[i]))
         ELSE UniqueByQuestionFrom(cs, i + 1, seen, unique_candidates)

UniqueByQuestion(cs) == UniqueByQuestionFrom(cs, 1, {}, <<>>)

UniqueCandidates(cs) == UniqueFrom(cs, 1, {}, <<>>)

\* faulty variant of lines 972-999: dry_run is looked at before the engine
\* handle
CreateUcFunctionsRouteDryFirst(cs, wh, dry) ==
    IF cs = <<>> THEN "empty"
    ELSE IF dry THEN "dry_run"
    ELSE IF ~wh THEN "no_warehouse"
    ELSE "pool"

\* faulty variant of lines 972-999: a dry run goes to the pool as well
CreateUcFunctionsRoutePoolAlways(cs, wh, dry) ==
    IF cs = <<>> THEN "empty"
    ELSE IF ~wh THEN "no_warehouse"
    ELSE "pool"

\* lines 972-999: which way create_uc_functions goes
CreateUcFunctionsRoute(cs, wh, dry) ==
    IF cs = <<>> THEN "empty"
    ELSE IF ~wh THEN "no_warehouse"
    ELSE IF dry THEN "dry_run"
    ELSE "pool"

\* lines 978-985
NoWarehouseResult ==
    [success |-> FALSE, asset_type |-> "uc_function", name |-> <<"a", "l", "l">>,
     error |-> [attempts |-> 0,
                cause |-> <<"config", "warehouse_id not provided">>]]

\* lines 1000-1018
DryRunResults(unique_candidates) ==
    [i \in DOMAIN unique_candidates |->
        SuccessResult(FunctionNames[unique_candidates[i]])]

\* lines 1038-1049
UnexpectedResult(candidate) ==
    [success |-> FALSE, asset_type |-> "uc_function",
     name |-> FunctionNames[candidate],
     error |-> [attempts |-> 0, cause |-> <<"unexpected", "Unexpected error">>]]

\* faulty variant of lines 1034-1049: a raising task leaves no outcome
CollectedDropsRaised(rs, future) ==
    IF future.exception THEN rs ELSE Append(rs, future.outcome)

\* lines 1034-1049: one iteration of the as_completed loop
Collected(rs, future) ==
    IF future.exception
    THEN Append(rs, UnexpectedResult(future.candidate))
    ELSE Append(rs, future.outcome)

\* lines 1026-1030: the futures as submitted
SubmittedFutures(unique_candidates) ==
    [i \in DOMAIN unique_candidates |->
        [candidate |-> unique_candidates[i], status |-> "queued",
         exception |-> FALSE, outcome |-> NoResult]]

Running(fs) == {i \in DOMAIN fs : fs[i].status = "running"}

\* ThreadPoolExecutor(max_workers): a worker is free
WorkerFree(fs, width) == Cardinality(Running(fs)) < width

\* f"{self.catalog}.{self.schema}.{r.name}"
FullName(name) == <<"m", "a", "i", "n", ".", "f", ".">> \o name

\* faulty variant of lines 1238-1242: the success filter is missing
CreatedFunctionsUnfiltered(rs) == [i \in DOMAIN rs |-> FullName(rs[i].name)]

\* lines 1238-1242
CreatedFunctions(rs) ==
    LET succeeded(r) == r.success
        ok == SelectSeq(rs, succeeded)
    IN  [i \in DOMAIN ok |-> FullName(ok[i].name)]

\* ------------------------------------------------------------------------
\* run / create_all / create_uc_functions
\* ------------------------------------------------------------------------
Batches == UNION {[1..n -> Candidates] : n \in 0..MaxBatch}

RetryIdle ==
    /\ cand = CHOOSE c \in Candidates : c.question = QTopSales
    /\ max_retries = DefaultMaxRetries
    /\ pc = "idle"
    /\ attempt = 0
    /\ current_sql = None
    /\ last_error = NoError
    /\ poll_attempts = 0
    /\ test_poll_attempts = 0
    /\ statements = <<>>
    /\ raised = NoError
    /\ failures = 0
    /\ corrected_sql = None
    /\ tags_set = None
    /\ smoke = None
    /\ result = NoResult

Init ==
    /\ PipelineIdle
    /\ RetryIdle
    /\ RegistryIdle
    /\ caller \in {"cli", "notebook", "api"}
    /\ configured \in IF caller = "cli" THEN {0} ELSE 1..MaxWorkers
    /\ candidates \in Batches
    /\ dry_run \in BOOLEAN
    /\ create_uc_functions \in BOOLEAN
    /\ register_uc_functions \in BOOLEAN
    /\ warehouse_id \in BOOLEAN
    /\ num_workers = DefaultNumWorkers
    /\ phase = "start"
    /\ futures = <<>>
    /\ results = <<>>
    /\ uc_results = <<>>
    /\ created_functions = <<>>

\* main.py 352-369 and 100-116: main calls run, which has no parameter for
\* the pool width; with nothing extracted run returns its report, otherwise
\* its call of ComplexityEvaluator(model=..., optimize_sql=...) raises
\* TypeError (complexity_evaluator.py 83-88 declares no optimize_sql), so
\* create_all is not reached
RunFromCli ==
    /\ phase = "start"
    /\ caller = "cli"
    /\ phase' = IF candidates = <<>> THEN "returned" ELSE "type_error"
    /\ UNCHANGED <<caller, configured, candidates, dry_run,
                   create_uc_functions, register_uc_functions, warehouse_id,
                   num_workers, futures, results, uc_results,
                   created_functions, retryVars, regVars, pipelineVars>>

\* notebook 239-256: run(..., num_workers=num_workers); run (main.py 25-42)
\* declares no such parameter, so the call raises TypeError
RunFromNotebook ==
    /\ phase = "start"
    /\ caller = "notebook"
    /\ phase' = "type_error"
    /\ UNCHANGED <<caller, configured, candidates, dry_run,
                   create_uc_functions, register_uc_functions, warehouse_id,
                   num_workers, futures, results, uc_results,
                   created_functions, retryVars, regVars, pipelineVars>>

\* create_all called with num_workers (lines 1189-1198)
CreateAllCalled ==
    /\ phase = "start"
    /\ caller = "api"
    /\ num_workers' = configured
    /\ phase' = "create_all"
    /\ UNCHANGED <<caller, configured, candidates, dry_run,
                   create_uc_functions, register_uc_functions, warehouse_id,
                   futures, results, uc_results, created_functions,
                   retryVars, regVars, pipelineVars>>

\* lines 1230-1232
SkipUcFunctions ==
    /\ phase = "create_all"
    /\ ~create_uc_functions
    /\ uc_results' = <<>>
    /\ phase' = "register"
    /\ UNCHANGED <<caller, configured, candidates, dry_run,
                   create_uc_functions, register_uc_functions, warehouse_id,
                   num_workers, futures, results, created_functions,
                   retryVars, regVars, pipelineVars>>

\* create_uc_functions, lines 972-1018: the returns without a pool
CreateUcFunctionsDirect ==
    /\ phase = "create_all"
    /\ create_uc_functions
    /\ LET route == CreateUcFunctionsRoute(candidates, warehouse_id, dry_run)
       IN  /\ route # "pool"
           /\ uc_results' =
                 IF route = "empty" THEN <<>>
                 ELSE IF route = "no_warehouse" THEN <<NoWarehouseResult>>
                 ELSE DryRunResults(UniqueCandidates(candidates))
    /\ phase' = "register"
    /\ UNCHANGED <<caller, configured, candidates, dry_run,
                   create_uc_functions, register_uc_functions, warehouse_id,
                   num_workers, futures, results, created_functions,
                   retryVars, regVars, pipelineVars>>

\* create_uc_functions, lines 987-997 and 1020-1032: the pool is opened and
\* one task per unique candidate is submitted
CreateUcFunctionsSubmit ==
    /\ phase = "create_all"
    /\ create_uc_functions
    /\ CreateUcFunctionsRoute(candidates, warehouse_id, dry_run) = "pool"
    /\ futures' = SubmittedFutures(UniqueCandidates(candidates))
    /\ results' = <<>>
    /\ phase' = "pool"
    /\ UNCHANGED <<caller, configured, candidates, dry_run,
                   create_uc_functions, register_uc_functions, warehouse_id,
                   num_workers, uc_results, created_functions,
                   retryVars, regVars, pipelineVars>>

\* a free worker takes the oldest queued task
TaskStart(i) ==
    /\ phase = "pool"
    /\ futures[i].status = "queued"
    /\ \A j \in 1..(i - 1) : futures[j].status # "queued"
    /\ WorkerFree(futures, num_workers)
    /\ futures' = [futures EXCEPT ![i].status = "running"]
    /\ UNCHANGED <<caller, configured, candidates, dry_run,
                   create_uc_functions, register_uc_functions, warehouse_id,
                   num_workers, phase, results, uc_results, created_functions,
                   retryVars, regVars, pipelineVars>>

\* the task's call of _create_function_with_retry returns
TaskReturns(i) ==
    /\ phase = "pool"
    /\ futures[i].status = "running"
    /\ \E outcome \in TaskOutcomes[futures[i].candidate] :
        futures' = [futures EXCEPT ![i].status = "done", ![i].outcome = outcome]
    /\ UNCHANGED <<caller, configured, candidates, dry_run,
                   create_uc_functions, register_uc_functions, warehouse_id,
                   num_workers, phase, results, uc_results, created_functions,
                   retryVars, regVars, pipelineVars>>

\* the task ends with an exception that _create_function_with_retry let out
TaskRaises(i) ==
    /\ phase = "pool"
    /\ futures[i].status = "running"
    /\ futures' = [futures EXCEPT ![i].status = "done", ![i].exception = TRUE]
    /\ UNCHANGED <<caller, configured, candidates, dry_run,
                   create_uc_functions, register_uc_functions, warehouse_id,
                   num_workers, phase, results, uc_results, created_functions,
                   retryVars, regVars, pipelineVars>>

\* lines 1034-1049: as_completed yields a finished future
Collect(i) ==
    /\ phase = "pool"
    /\ futures[i].status = "done"
    /\ results' = Collected(results, futures[i])
    /\ futures' = [futures EXCEPT ![i].status = "collected"]
    /\ UNCHANGED <<caller, configured, candidates, dry_run,
                   create_uc_functions, register_uc_functions, warehouse_id,
                   num_workers, phase, uc_results, created_functions,
                   retryVars, regVars, pipelineVars>>

\* lines 1051-1054 and 1227-1229: every future was yielded, the pool is shut
\* down and create_uc_functions returns
CreateUcFunctionsReturn ==
    /\ phase = "pool"
    /\ \A i \in DOMAIN futures : futures[i].status = "collected"
    /\ uc_results' = results
    /\ phase' = "register"
    /\ UNCHANGED <<caller, configured, candidates, dry_run,
                   create_uc_functions, register_uc_functions, warehouse_id,
                   num_workers, futures, results, created_functions,
                   retryVars, regVars, pipelineVars>>

\* lines 1236-1243: is there anything to register
ShouldRegister ==
    /\ register_uc_functions
    /\ uc_results # <<>>
    /\ CreatedFunctions(uc_results) # <<>>

\* lines 1244-1251: register_functions_with_genie is called
RegisterFunctions ==
    /\ phase = "register"
    /\ ShouldRegister
    /\ created_functions' = CreatedFunctions(uc_results)
    /\ phase' = "registering"
    /\ UNCHANGED <<caller, configured, candidates, dry_run,
                   create_uc_functions, register_uc_functions, warehouse_id,
                   num_workers, futures, results, uc_results,
                   retryVars, regVars, pipelineVars>>

\* lines 1252-1255: nothing to register, or the call returned
CreateAllReturn ==
    /\ \/ phase = "register" /\ ~ShouldRegister
       \/ phase = "registering"
    /\ phase' = "returned"
    /\ UNCHANGED <<caller, configured, candidates, dry_run,
                   create_uc_functions, register_uc_functions, warehouse_id,
                   num_workers, futures, results, uc_results,
                   created_functions, retryVars, regVars, pipelineVars>>

Next ==
    \/ RunFromCli
    \/ RunFromNotebook
    \/ CreateAllCalled
    \/ SkipUcFunctions
    \/ CreateUcFunctionsDirect
    \/ CreateUcFunctionsSubmit
    \/ \E i \in DOMAIN futures : TaskStart(i)
    \/ \E i \in DOMAIN futures : TaskReturns(i)
    \/ \E i \in DOMAIN futures : TaskRaises(i)
    \/ \E i \in DOMAIN futures : Collect(i)
    \/ CreateUcFunctionsReturn
    \/ RegisterFunctions
    \/ CreateAllReturn

Spec == Init /\ [][Next]_vars

\* ------------------------------------------------------------------------
\* Properties of _create_function_with_retry (SpecRetry)
\* ------------------------------------------------------------------------
\* line 808 was reached: a create statement was seen SUCCEEDED
Created == pc \in {"tags", "test", "test_poll"} \/ smoke # None

\* C1: the create statement is submitted at most max_retries + 1 times, and
\* when no submission is seen to succeed the outcome returned has
\* success = FALSE and an error carrying the text of the last failure raised.
C1_RetryBound ==
    /\ Len(statements) <= max_retries + 1
    /\ (pc = "done" /\ ~Created) =>
          /\ ~result.success
          /\ raised # NoError
          /\ result.error.cause = raised

\* three submissions, the first rejected, the last timed out
C1_Witness ==
    /\ pc = "done"
    /\ max_retries = DefaultMaxRetries
    /\ Len(statements) = DefaultMaxRetries + 1
    /\ statements[1].state = "REJECTED"
    /\ failures = 3
    /\ result.error.cause = TimeoutError

\* C2: after a failed attempt with attempts remaining exactly one of three
\* things happens: a distinct corrected statement becomes the next attempt's
\* statement; otherwise, for a candidate with parameters after the first
\* attempt only, the zero-parameter statement does; otherwise no further
\* attempt is made.  A statement is submitted only as the attempt's step and
\* it is the statement so chosen.
C2_FailureTransitions ==
    /\ [][(pc = "correct" /\ pc' # "correct") =>
            IF corrected_sql' \notin {None, ""} /\ corrected_sql' # current_sql
            THEN /\ pc' = "submit"
                 /\ current_sql' = corrected_sql'
                 /\ attempt' = attempt + 1
            ELSE IF cand.parameters # <<>> /\ attempt = 0
                 THEN /\ pc' = "submit"
                      /\ current_sql' = ZeroParamSql
                      /\ attempt' = 1
                 ELSE /\ pc' = "done"
                      /\ ~result'.success]_vars
    /\ [][Len(statements') # Len(statements) =>
            /\ pc = "submit"
            /\ Len(statements') = Len(statements) + 1
            /\ statements'[Len(statements')].statement = current_sql]_vars
    /\ [][pc = "done" => pc' = "done" /\ Len(statements') = Len(statements)]_vars

\* the correction echoed the failing statement and the fallback was chosen
C2_Witness ==
    /\ pc = "submit"
    /\ attempt = 1
    /\ corrected_sql = ParamSql
    /\ current_sql = ZeroParamSql

\* C3: failures that are each followed by a distinct correction and then a
\* success give success = TRUE with exactly failures + 1 submissions; a failed
\* outcome is returned only with the budget used up or without a distinct
\* correction.
C3_SuccessAfterCorrections ==
    /\ []((pc = "done" /\ Created) =>
            /\ result.success
            /\ Len(statements) = failures + 1)
    /\ [][(pc # "done" /\ pc' = "done" /\ ~result'.success) =>
            \/ Len(statements') = max_retries + 1
            \/ /\ pc = "correct"
               /\ corrected_sql' \in {None, "", current_sql}]_vars

\* two failed statements, each corrected, the third one succeeds
C3_Witness ==
    /\ pc = "done"
    /\ result.success
    /\ failures = 2
    /\ Len(statements) = 3
    /\ statements[1].state = "FAILED"
    /\ statements[2].state = "FAILED"
    /\ statements[2].statement = "corrected 1"
    /\ statements[3].statement = "corrected 2"
    /\ statements[3].state = "SUCCEEDED"

\* C4: once a create statement was seen SUCCEEDED the outcome is
\* success = TRUE whatever tagging and the smoke test do, and no further
\* create statement is submitted.
C4_SuccessIsFinal ==
    [][Created =>
        /\ Created'
        /\ Len(statements') = Len(statements)
        /\ (pc' = "done" => result'.success)]_vars

\* tagging raised and the smoke test timed out
C4_Witness ==
    /\ pc = "done"
    /\ result.success
    /\ tags_set = "raised"
    /\ smoke = "timeout"

\* the thread that executes the call keeps running and every external call
\* returns or raises (the submit call has a wait timeout); nothing is assumed
\* of the engine
FairSpecRetry == SpecRetry /\ WF_vars(RetryStep)

\* C5: an attempt polls at most max_poll_attempts times; a statement still
\* pending at the ceiling makes the attempt fail with the timeout error, which
\* feeds the retry logic; and the call returns one of its outcomes whatever
\* the engine does.
C5_PollingBounded ==
    /\ [](poll_attempts <= max_poll_attempts)
    /\ [][(pc = "poll" /\ poll_attempts = max_poll_attempts /\ pc' # "poll") =>
            /\ raised' = TimeoutError
            /\ last_error' = TimeoutError
            /\ failures' = failures + 1
            /\ pc' = IF attempt < max_retries THEN "correct" ELSE "done"]_vars
    /\ <>(pc = "done")
    /\ []((pc = "done") => result \in RetryOutcomeTable[cand][max_retries])

\* every statement stayed PENDING and the call returned the timeout
C5_Witness ==
    /\ pc = "done"
    /\ Len(statements) = DefaultMaxRetries + 1
    /\ \A k \in DOMAIN statements : statements[k].state = "PENDING"
    /\ result.error.cause = TimeoutError

\* C6: a create statement is submitted only when no earlier create statement
\* of the candidate is still PENDING or RUNNING at the engine.
C6_AttemptsSequential ==
    [][Len(statements') > Len(statements) =>
        \A k \in DOMAIN statements : statements[k].state \notin PendingStates]_vars

\* ------------------------------------------------------------------------
\* Properties of run / create_all / create_uc_functions (Spec)
\* ------------------------------------------------------------------------
NameOf(candidate) == FunctionNames[candidate]

Names(cs) == {NameOf(cs[i]) : i \in DOMAIN cs}

\* index of the first candidate of the batch with the given name
FirstWithName(name) ==
    CHOOSE i \in DOMAIN candidates :
        /\ NameOf(candidates[i]) = name
        /\ \A j \in 1..(i - 1) : NameOf(candidates[j]) # name

PoolUsed == futures # <<>>

PoolClosed == phase \in {"register", "registering", "returned"}

\* C7: create_uc_functions with the pool returns exactly one outcome per
\* derived name of the batch, and the outcome of a name is the one its own
\* task ended with, whatever the other tasks did and in whatever order.
C7_OneOutcomePerCandidate ==
    /\ []((PoolUsed /\ PoolClosed) =>
            /\ Len(uc_results) = Cardinality(Names(candidates))
            /\ \A name \in Names(candidates) :
                 \E i \in DOMAIN futures :
                    /\ futures[i].candidate = candidates[FirstWithName(name)]
                    /\ Cardinality({k \in DOMAIN uc_results :
                                      uc_results[k].name = name}) = 1
                    /\ \A k \in DOMAIN uc_results :
                         uc_results[k].name = name =>
                           uc_results[k] =
                             IF futures[i].exception
                             THEN UnexpectedResult(futures[i].candidate)
                             ELSE futures[i].outcome)
    /\ [][\A i \in DOMAIN futures :
            futures[i].status \in {"done", "collected"} =>
              /\ i \in DOMAIN futures'
              /\ futures'[i].outcome = futures[i].outcome
              /\ futures'[i].exception = futures[i].exception
              /\ futures'[i].status \in {"done", "collected"}]_vars
    /\ [][\A k \in DOMAIN results :
            k \in DOMAIN results' /\ results'[k] = results[k]]_vars

\* one task raised, the other returned a success, both are in the list
C7_Witness ==
    /\ phase = "returned"
    /\ Len(uc_results) = 2
    /\ \E i, j \in DOMAIN uc_results :
        /\ uc_results[i].error.cause[1] = "unexpected"
        /\ uc_results[j].success

\* C8: the caller of run sets the worker-pool width (4 when it sets none), the
\* run is carried out with it and never has more tasks executing than that.
C8_WidthOfCaller ==
    (caller \in {"cli", "notebook"} /\ phase # "start") =>
        /\ phase # "type_error"
        /\ Cardinality(Running(futures)) <=
              IF configured = 0 THEN DefaultNumWorkers ELSE configured

\* C9: register_functions_with_genie is called only after every task of the
\* pool has ended and was collected, with exactly the full names of the
\* outcomes that have success = TRUE, and not at all when function creation
\* is off or gave no successful outcome.
C9_RegisterAfterCreation ==
    /\ (phase \in {"start", "create_all", "pool", "register"}) =>
          created_functions = <<>>
    /\ (phase = "registering" \/ created_functions # <<>>) =>
          /\ create_uc_functions
          /\ \A i \in DOMAIN futures : futures[i].status = "collected"
          /\ \E k \in DOMAIN uc_results : uc_results[k].success
          /\ Len(created_functions) =
                Cardinality({k \in DOMAIN uc_results : uc_results[k].success})
          /\ Range(created_functions) =
                {FullName(uc_results[k].name) :
                    k \in {n \in DOMAIN uc_results : uc_results[n].success}}

\* two outcomes, one failed: one name is registered
C9_Witness ==
    /\ phase = "registering"
    /\ PoolUsed
    /\ Len(uc_results) = 2
    /\ Len(created_functions) = 1

\* C10: the batch is deduplicated by derived function name before anything
\* runs: the tasks are the first candidates of each name, in input order, so
\* no two tasks and no two outcomes share a name.
C10_DedupByName ==
    /\ \A i, j \in DOMAIN futures :
          i # j => NameOf(futures[i].candidate) # NameOf(futures[j].candidate)
    /\ \A i \in DOMAIN futures :
          futures[i].candidate = candidates[FirstWithName(NameOf(futures[i].candidate))]
    /\ \A i, j \in DOMAIN futures :
          i < j => FirstWithName(NameOf(futures[i].candidate))
                     < FirstWithName(NameOf(futures[j].candidate))
    /\ PoolUsed => Names(candidates) = {NameOf(futures[i].candidate) : i \in DOMAIN futures}
    /\ \A i, j \in DOMAIN results : i # j => results[i].name # results[j].name
    /\ \A i, j \in DOMAIN uc_results :
          i # j => uc_results[i].name # uc_results[j].name

\* three candidates, the second a respelling of the first: two tasks, both
\* executing
C10_Witness ==
    /\ phase = "pool"
    /\ Len(candidates) = 3
    /\ candidates[1].question = QTopSales
    /\ candidates[2].question = QTopSalesAgain
    /\ Len(futures) = 2
    /\ Cardinality(Running(futures)) = 2

\* C11: without an engine handle and with a non-empty batch,
\* create_uc_functions returns exactly one outcome, a failure, and nothing
\* was done: no task was submitted to the pool (the only place where
\* statements are submitted and corrections are asked for), in dry-run mode
\* as in apply mode.
C11_NoWarehouseNoWork ==
    (/\ phase \in {"register", "registering", "returned"}
     /\ create_uc_functions
     /\ candidates # <<>>
     /\ ~warehouse_id) =>
        /\ Len(uc_results) = 1
        /\ ~uc_results[1].success
        /\ uc_results[1].error.cause[2] = "warehouse_id not provided"
        /\ futures = <<>>
        /\ results = <<>>
        /\ created_functions = <<>>

\* a dry run over a batch of two without an engine handle
C11_Witness ==
    /\ phase = "returned"
    /\ create_uc_functions
    /\ dry_run
    /\ ~warehouse_id
    /\ Len(candidates) = 2
    /\ Len(uc_results) = 1

\* ------------------------------------------------------------------------
\* The registry document and the pure parts of the two registration calls
\* ------------------------------------------------------------------------
ResultNameLimit == 50

\* " ".join(words)
RECURSIVE JoinSpace(_)
JoinSpace(words) ==
    IF words = <<>> THEN <<>>
    ELSE IF Len(words) = 1 THEN words[1]
    ELSE words[1] \o <<" ">> \o JoinSpace(Tail(words))

\* TrustedAssetCreator._normalize_question
NormalizeQuestion(question) == JoinSpace(Split(Lower(question)))

Questions ==
    {QTopSales, QTopSalesSpaced, QTopSalesAgain, QNineLives, QOrders}

Normalized == [q \in Questions |-> NormalizeQuestion(q)]

\* _generate_unique_id: 32 hex digits, compared as text by the sort; the
\* identifiers of the model, in ascending order
HexIds == <<"1a", "5e", "9b">>

IdIndex(id) == CHOOSE i \in DOMAIN HexIds : HexIds[i] = id

IdLess(a, b) == IdIndex(a) < IdIndex(b)

Ids(list) == {list[i].id : i \in DOMAIN list}

\* list.sort(key=id), unsorted variant: the list is written as it is
SortByIdSkipped(list) == list

\* list.sort(key=lambda x: x.get("id", "")): a stable sort
RECURSIVE InsertById(_, _)
InsertById(sorted, e) ==
    IF sorted = <<>> THEN <<e>>
    ELSE IF IdLess(e.id, Head(sorted).id) THEN <<e>> \o sorted
    ELSE <<Head(sorted)>> \o InsertById(Tail(sorted), e)

RECURSIVE SortByIdFrom(_, _, _)
SortByIdFrom(list, i, sorted) ==
    IF i > Len(list) THEN sorted
    ELSE SortByIdFrom(list, i + 1, InsertById(sorted, list[i]))

SortById(list) == SortByIdFrom(list, 1, <<>>)

\* sorted(indices_to_remove, reverse=True)
RECURSIVE InsertDescending(_, _)
InsertDescending(sorted, n) ==
    IF sorted = <<>> THEN <<n>>
    ELSE IF n > Head(sorted) THEN <<n>> \o sorted
    ELSE <<Head(sorted)>> \o InsertDescending(Tail(sorted), n)

RECURSIVE SortedDescendingFrom(_, _, _)
SortedDescendingFrom(indices, i, sorted) ==
    IF i > Len(indices) THEN sorted
    ELSE SortedDescendingFrom(indices, i + 1,
                              InsertDescending(sorted, indices[i]))

SortedDescending(indices) == SortedDescendingFrom(indices, 1, <<>>)

\* del list[idx], the index counted from 1
DeleteAt(list, idx) ==
    SubSeq(list, 1, idx - 1) \o SubSeq(list, idx + 1, Len(list))

\* faulty variant of lines 440-441: the marked entries are left in the list
DeleteEachKept(list, indices) == [raised |-> FALSE, list |-> list]

\* lines 440-441 and 1155-1156: for idx in ...: del list[idx]; an index past
\* the end raises IndexError
RECURSIVE DeleteEach(_, _)
DeleteEach(list, indices) ==
    IF indices = <<>> THEN [raised |-> FALSE, list |-> list]
    ELSE IF Head(indices) > Len(list)
         THEN [raised |-> TRUE, list |-> list]
         ELSE DeleteEach(DeleteAt(list, Head(indices)), Tail(indices))

\* results of the registration calls
BatchName == <<"b", "a", "t", "c", "h">>

ReadError == <<"read", "get_space failed">>
WriteError == <<"write", "update_space failed">>
IndexError == <<"IndexError", "list assignment index out of range">>

\* lines 330-337
AlreadyExistsResult(candidate) ==
    [success |-> FALSE, asset_type |-> "trusted_asset",
     name |-> Prefix(candidate.question, ResultNameLimit),
     error |-> [attempts |-> 0,
                cause |-> <<"exists", "Trusted asset with this question already exists (not overwriting)">>]]

\* lines 418-424
AddedResult(candidate) ==
    [success |-> TRUE, asset_type |-> "trusted_asset",
     name |-> Prefix(candidate.question, ResultNameLimit),
     error |-> [attempts |-> 0, cause |-> NoError]]

\* lines 461-468 and 1178-1185
BatchFailure(asset_type, e) ==
    [success |-> FALSE, asset_type |-> asset_type, name |-> BatchName,
     error |-> [attempts |-> 0, cause |-> e]]

\* lines 1114-1121
AlreadyRegisteredResult(function_name) ==
    [success |-> FALSE, asset_type |-> "function_registration",
     name |-> function_name,
     error |-> [attempts |-> 0,
                cause |-> <<"exists", "Function already registered (use --force to replace)">>]]

\* lines 1133-1139
RegisteredResult(function_name) ==
    [success |-> TRUE, asset_type |-> "function_registration",
     name |-> function_name,
     error |-> [attempts |-> 0, cause |-> NoError]]

\* lines 300-304: normalized question -> index of the last entry that has it
ExistingQuestionMap(existing_examples) ==
    [n \in {Normalized[existing_examples[i].question] :
                i \in DOMAIN existing_examples} |->
        CHOOSE i \in DOMAIN existing_examples :
            /\ Normalized[existing_examples[i].question] = n
            /\ \A j \in (i + 1)..Len(existing_examples) :
                 Normalized[existing_examples[j].question] # n]

\* what the loop of lines 316-348 has built so far
NothingFiltered ==
    [results |-> <<>>, candidates_to_process |-> <<>>,
     duplicates_in_candidates |-> {}, indices_to_remove |-> <<>>]

\* faulty variant of lines 316-348: the "already exists" branch records the
\* outcome but does not skip the candidate
RECURSIVE FilterFromNoSkip(_, _, _, _, _)
FilterFromNoSkip(cs, i, frc, existing_question_map, acc) ==
    IF i > Len(cs) THEN acc
    ELSE LET candidate == cs[i]
             normalized == Normalized[candidate.question]
             exists == normalized \in DOMAIN existing_question_map
             checked ==
                IF exists /\ frc
                THEN [acc EXCEPT !.indices_to_remove =
                         Append(@, existing_question_map[normalized])]
                ELSE IF exists
                     THEN [acc EXCEPT !.results =
                              Append(@, AlreadyExistsResult(candidate))]
                     ELSE acc
         IN  IF normalized \in checked.duplicates_in_candidates
             THEN FilterFromNoSkip(cs, i + 1, frc, existing_question_map,
                                   checked)
             ELSE FilterFromNoSkip(cs, i + 1, frc, existing_question_map,
                     [checked EXCEPT
                        !.duplicates_in_candidates = @ \cup {normalized},
                        !.candidates_to_process = Append(@, candidate)])

FilterCandidatesNoSkip(cs, frc, existing_question_map) ==
    FilterFromNoSkip(cs, 1, frc, existing_question_map, NothingFiltered)

\* lines 316-348: the loop over the candidates, from candidate i on
RECURSIVE FilterFrom(_, _, _, _, _)
FilterFrom(cs, i, frc, existing_question_map, acc) ==
    IF i > Len(cs) THEN acc
    ELSE LET candidate == cs[i]
             normalized == Normalized[candidate.question]
             exists == normalized \in DOMAIN existing_question_map
             marked ==
                IF exists /\ frc
                THEN [acc EXCEPT !.indices_to_remove =
                         Append(@, existing_question_map[normalized])]
                ELSE acc
         IN  IF exists /\ ~frc
             THEN FilterFrom(cs, i + 1, frc, existing_question_map,
                     [acc EXCEPT !.results =
                         Append(@, AlreadyExistsResult(candidate))])
             ELSE IF normalized \in marked.duplicates_in_candidates
                  THEN FilterFrom(cs, i + 1, frc, existing_question_map,
                                  marked)
                  ELSE FilterFrom(cs, i + 1, frc, existing_question_map,
                          [marked EXCEPT
                             !.duplicates_in_candidates = @ \cup {normalized},
                             !.candidates_to_process = Append(@, candidate)])

FilterCandidates(cs, frc, existing_question_map) ==
    FilterFrom(cs, 1, frc, existing_question_map, NothingFiltered)

\* the identifiers n calls of _generate_unique_id can give: pairwise
\* different and different from those of the entries that stay in the list
FreshIds(n, used) ==
    {ids \in [1..n -> Range(HexIds) \ used] :
        \A i, j \in 1..n : i # j => ids[i] # ids[j]}

\* lines 385-413: one example entry per candidate to process
NewExamples(to_process, ids) ==
    [i \in DOMAIN to_process |->
        [id |-> ids[i], question |-> to_process[i].question]]

\* faulty variant of lines 417-424: the added entries are not reported
AddedResultsUnreported(to_process) == <<>>

\* lines 417-424
AddedResults(to_process) ==
    [i \in DOMAIN to_process |-> AddedResult(to_process[i])]

\* faulty variant of lines 1092-1094: the functions of the document are not
\* looked at
ExistingIdentifiersUnread(existing_functions) == <<>>

\* lines 1092-1094: identifier -> index of the last entry that has it
ExistingIdentifiers(existing_functions) ==
    [n \in {existing_functions[i].identifier :
                i \in DOMAIN existing_functions} |->
        CHOOSE i \in DOMAIN existing_functions :
            /\ existing_functions[i].identifier = n
            /\ \A j \in (i + 1)..Len(existing_functions) :
                 existing_functions[j].identifier # n]

NothingRegistered ==
    [results |-> <<>>, new_names |-> <<>>, indices_to_remove |-> <<>>]

\* lines 1104-1139: the loop over the function names, from name i on
RECURSIVE RegisterFrom(_, _, _, _, _)
RegisterFrom(function_names, i, frc, existing_identifiers, acc) ==
    IF i > Len(function_names) THEN acc
    ELSE LET name == function_names[i]
             exists == name \in DOMAIN existing_identifiers
             marked ==
                IF exists /\ frc
                THEN [acc EXCEPT !.indices_to_remove =
                         Append(@, existing_identifiers[name])]
                ELSE acc
         IN  IF exists /\ ~frc
             THEN RegisterFrom(function_names, i + 1, frc,
                     existing_identifiers,
                     [acc EXCEPT !.results =
                         Append(@, AlreadyRegisteredResult(name))])
             ELSE RegisterFrom(function_names, i + 1, frc,
                     existing_identifiers,
                     [marked EXCEPT
                        !.new_names = Append(@, name),
                        !.results = Append(@, RegisteredResult(name))])

RegisterNames(function_names, frc, existing_identifiers) ==
    RegisterFrom(function_names, 1, frc, existing_identifiers,
                 NothingRegistered)

\* lines 1125-1130
NewFunctions(names, ids) ==
    [i \in DOMAIN names |-> [id |-> ids[i], identifier |-> names[i]]]

\* ------------------------------------------------------------------------
\* create_all against the registry: create_trusted_assets, create_uc_functions
\* and register_functions_with_genie, run twice
\* ------------------------------------------------------------------------
settings == <<caller, configured, candidates, dry_run, create_uc_functions,
              register_uc_functions, warehouse_id, num_workers, force,
              create_sql_instructions, run_no, applied>>

functionVars == <<futures, results, uc_results, created_functions>>

examplesVars == <<candidates_to_process, indices_to_remove, guidance_futures,
                  trusted_results>>

RegistryBatches ==
    UNION {[1..n -> RegistryCandidates] : n \in 0..MaxRegistryBatch}

\* registries a run can find: empty; entries in any order, one of them an
\* example nobody asks for again; a function registered before
UnsortedRegistry ==
    [examples |-> << [id |-> "9b", question |-> QNineLives],
                     [id |-> "1a", question |-> QTopSalesSpaced] >>,
     functions |-> <<>>]

SortedRegistry ==
    [examples |-> << [id |-> "1a", question |-> QTopSales],
                     [id |-> "5e", question |-> QNineLives] >>,
     functions |-> << [id |-> "5e",
                       identifier |->
                          FullName(SanitizeFunctionName(QOrders))] >>]

InitialRegistries == {EmptyDocument, UnsortedRegistry, SortedRegistry}

\* the feature toggles explored: create examples, create functions, register
Toggles == {<<TRUE, TRUE, TRUE>>, <<FALSE, FALSE, TRUE>>, <<TRUE, TRUE, FALSE>>}

InitRegistry ==
    /\ PipelineIdle
    /\ RetryIdle
    /\ caller = "api"
    /\ configured = 0
    /\ num_workers = DefaultNumWorkers
    /\ warehouse_id = TRUE
    /\ candidates \in RegistryBatches
    /\ dry_run \in BOOLEAN
    /\ force \in BOOLEAN
    /\ \E t \in Toggles :
        /\ create_sql_instructions = t[1]
        /\ create_uc_functions = t[2]
        /\ register_uc_functions = t[3]
    /\ registry \in InitialRegistries
    /\ phase = "start"
    /\ futures = <<>>
    /\ results = <<>>
    /\ uc_results = <<>>
    /\ created_functions = <<>>
    /\ config = None
    /\ candidates_to_process = <<>>
    /\ indices_to_remove = <<>>
    /\ guidance_futures = <<>>
    /\ trusted_results = <<>>
    /\ register_results = <<>>
    /\ writes = <<>>
    /\ run_no = "first"
    /\ applied = FALSE

\* lines 1217-1223: create_sql_instructions is off
SkipSqlInstructions ==
    /\ phase = "start"
    /\ ~create_sql_instructions
    /\ trusted_results' = <<>>
    /\ phase' = "create_all"
    /\ UNCHANGED <<settings, functionVars, registry, config,
                   candidates_to_process, indices_to_remove, guidance_futures,
                   register_results, writes, retryVars, pipelineVars>>

\* lines 282-284: nothing to do for an empty batch
TrustedAssetsEmpty ==
    /\ phase = "start"
    /\ create_sql_instructions
    /\ candidates = <<>>
    /\ trusted_results' = <<>>
    /\ phase' = "create_all"
    /\ UNCHANGED <<settings, functionVars, registry, config,
                   candidates_to_process, indices_to_remove, guidance_futures,
                   register_results, writes, retryVars, pipelineVars>>

\* lines 290 and 459-470: reading the document raises
TrustedAssetsReadFails ==
    /\ phase = "start"
    /\ create_sql_instructions
    /\ candidates # <<>>
    /\ trusted_results' = <<BatchFailure("trusted_asset", ReadError)>>
    /\ phase' = "create_all"
    /\ UNCHANGED <<settings, functionVars, registry, config,
                   candidates_to_process, indices_to_remove, guidance_futures,
                   register_results, writes, retryVars, pipelineVars>>

\* the futures of lines 360-364 as submitted
SubmittedGuidance(to_process) ==
    [i \in DOMAIN to_process |->
        [candidate |-> to_process[i], status |-> "queued"]]

\* lines 290-366: the document is read, the batch is filtered and the
\* usage-guidance tasks are submitted
TrustedAssetsFilter ==
    /\ phase = "start"
    /\ create_sql_instructions
    /\ candidates # <<>>
    /\ config' = registry
    /\ LET filtered == FilterCandidates(candidates, force,
                           ExistingQuestionMap(registry.examples))
       IN  /\ trusted_results' = filtered.results
           /\ candidates_to_process' = filtered.candidates_to_process
           /\ indices_to_remove' = filtered.indices_to_remove
           /\ guidance_futures' =
                 SubmittedGuidance(filtered.candidates_to_process)
           /\ phase' = IF filtered.candidates_to_process = <<>>
                       THEN "create_all" ELSE "guidance"
    /\ UNCHANGED <<settings, functionVars, registry, register_results,
                   writes, retryVars, pipelineVars>>

\* a free worker takes the oldest queued guidance task
GuidanceStart(i) ==
    /\ phase = "guidance"
    /\ guidance_futures[i].status = "queued"
    /\ \A j \in 1..(i - 1) : guidance_futures[j].status # "queued"
    /\ WorkerFree(guidance_futures, num_workers)
    /\ guidance_futures' = [guidance_futures EXCEPT ![i].status = "running"]
    /\ UNCHANGED <<settings, functionVars, registry, config,
                   candidates_to_process, indices_to_remove, trusted_results,
                   register_results, writes, phase, retryVars, pipelineVars>>

\* _generate_usage_guidance returns (the text, or the fallback text when the
\* text-generation call raised)
GuidanceEnds(i) ==
    /\ phase = "guidance"
    /\ guidance_futures[i].status = "running"
    /\ guidance_futures' = [guidance_futures EXCEPT ![i].status = "done"]
    /\ UNCHANGED <<settings, functionVars, registry, config,
                   candidates_to_process, indices_to_remove, trusted_results,
                   register_results, writes, phase, retryVars, pipelineVars>>

\* lines 368-380: as_completed yields a finished future
GuidanceCollect(i) ==
    /\ phase = "guidance"
    /\ guidance_futures[i].status = "done"
    /\ guidance_futures' = [guidance_futures EXCEPT ![i].status = "collected"]
    /\ UNCHANGED <<settings, functionVars, registry, config,
                   candidates_to_process, indices_to_remove, trusted_results,
                   register_results, writes, phase, retryVars, pipelineVars>>

\* faulty variant: the loop ends with the first future yielded
GuidanceLoopEndsEarly(fs) == \E i \in DOMAIN fs : fs[i].status = "collected"

\* lines 360-380: the as_completed loop and the with block have ended
GuidanceLoopEnded(fs) == \A i \in DOMAIN fs : fs[i].status = "collected"

\* lines 382-448: the entries are built; a dry run returns here; otherwise the
\* marked entries are deleted, the new ones appended, the list sorted and
\* update_space called
TrustedAssetsBuild ==
    /\ phase = "guidance"
    /\ GuidanceLoopEnded(guidance_futures)
    /\ LET reported == trusted_results \o AddedResults(candidates_to_process)
           removed == DeleteEach(config.examples,
                                 SortedDescending(indices_to_remove))
           written == ~dry_run /\ ~removed.raised
       IN  \E ids \in FreshIds(Len(candidates_to_process),
                               IF written THEN Ids(removed.list) ELSE {}) :
            IF dry_run
            THEN /\ trusted_results' = reported
                 /\ phase' = "create_all"
                 /\ UNCHANGED <<config, writes>>
            ELSE IF removed.raised
                 THEN /\ trusted_results' =
                           Append(reported,
                                  BatchFailure("trusted_asset", IndexError))
                      /\ phase' = "create_all"
                      /\ UNCHANGED <<config, writes>>
                 ELSE /\ trusted_results' = reported
                      /\ config' = [config EXCEPT !.examples =
                            SortById(removed.list \o
                               NewExamples(candidates_to_process, ids))]
                      /\ writes' = Append(writes, "examples")
                      /\ phase' = "writing_examples"
    /\ UNCHANGED <<settings, functionVars, registry, candidates_to_process,
                   indices_to_remove, guidance_futures, register_results,
                   retryVars, pipelineVars>>

\* lines 451-457: update_space replaces the whole document
TrustedAssetsWritten ==
    /\ phase = "writing_examples"
    /\ registry' = config
    /\ phase' = "create_all"
    /\ UNCHANGED <<settings, functionVars, config, examplesVars,
                   register_results, writes, retryVars, pipelineVars>>

\* faulty variant of lines 459-470: the handler returns the batch failure
\* alone
TrustedAssetsWriteFailsAlone ==
    /\ phase = "writing_examples"
    /\ trusted_results' = <<BatchFailure("trusted_asset", WriteError)>>
    /\ phase' = "create_all"
    /\ UNCHANGED <<settings, functionVars, registry, config,
                   candidates_to_process, indices_to_remove, guidance_futures,
                   register_results, writes, retryVars, pipelineVars>>

\* lines 452-470: update_space raises
TrustedAssetsWriteFails ==
    /\ phase = "writing_examples"
    /\ trusted_results' =
          Append(trusted_results, BatchFailure("trusted_asset", WriteError))
    /\ phase' = "create_all"
    /\ UNCHANGED <<settings, functionVars, registry, config,
                   candidates_to_process, indices_to_remove, guidance_futures,
                   register_results, writes, retryVars, pipelineVars>>

\* the engine of this specification either creates a function or leaves its
\* statements pending: the outcomes of _create_function_with_retry that are
\* a success or end with the polling timeout
RegistryTaskOutcomes ==
    [c \in RegistryCandidates |->
        {o \in TaskOutcomes[c] : o.success \/ o.error.cause = TimeoutError}]

\* the task's call of _create_function_with_retry returns
TaskEnds(i) ==
    /\ phase = "pool"
    /\ futures[i].status = "running"
    /\ \E outcome \in RegistryTaskOutcomes[futures[i].candidate] :
        futures' = [futures EXCEPT ![i].status = "done", ![i].outcome = outcome]
    /\ UNCHANGED <<caller, configured, candidates, dry_run,
                   create_uc_functions, register_uc_functions, warehouse_id,
                   num_workers, phase, results, uc_results, created_functions,
                   retryVars, regVars, pipelineVars>>

\* lines 1236-1255: nothing to register
CreateAllReturnsUnregistered ==
    /\ phase = "register"
    /\ ~ShouldRegister
    /\ phase' = "returned"
    /\ UNCHANGED <<settings, functionVars, registry, config, examplesVars,
                   register_results, writes, retryVars, pipelineVars>>

\* lines 1081 and 1176-1187: reading the document raises
RegisterReadFails ==
    /\ phase = "registering"
    /\ register_results' =
          <<BatchFailure("function_registration", ReadError)>>
    /\ phase' = "returned"
    /\ UNCHANGED <<settings, functionVars, registry, config, examplesVars,
                   writes, retryVars, pipelineVars>>

\* faulty variant of line 1081: the merge starts from the document that
\* create_trusted_assets built earlier in the run instead of reading the
\* stored one again
RegisterFunctionsReadStale ==
    /\ phase = "registering"
    /\ LET document == IF \E k \in DOMAIN writes : writes[k] = "examples"
                       THEN config ELSE registry
           registered == RegisterNames(created_functions, force,
                             ExistingIdentifiers(document.functions))
           removed == DeleteEach(document.functions,
                                 SortedDescending(registered.indices_to_remove))
           written == registered.new_names # <<>> /\ ~dry_run /\ ~removed.raised
       IN  \E ids \in FreshIds(Len(registered.new_names),
                               IF written THEN Ids(removed.list) ELSE {}) :
             IF registered.new_names = <<>> \/ dry_run
             THEN /\ register_results' = registered.results
                  /\ config' = document
                  /\ phase' = "returned"
                  /\ UNCHANGED writes
             ELSE IF removed.raised
                  THEN /\ register_results' =
                            Append(registered.results,
                                   BatchFailure("function_registration",
                                                IndexError))
                       /\ config' = document
                       /\ phase' = "returned"
                       /\ UNCHANGED writes
                  ELSE /\ register_results' = registered.results
                       /\ config' = [document EXCEPT !.functions =
                             SortById(removed.list \o
                                NewFunctions(registered.new_names, ids))]
                       /\ writes' = Append(writes, "functions")
                       /\ phase' = "writing_functions"
    /\ UNCHANGED <<settings, functionVars, registry, examplesVars, retryVars, pipelineVars>>

\* lines 1081-1172: the document is read, the names are classified; a dry
\* run returns here; otherwise the marked entries are deleted, the new ones
\* appended, the list sorted and update_space called
RegisterFunctionsRead ==
    /\ phase = "registering"
    /\ LET registered == RegisterNames(created_functions, force,
                             ExistingIdentifiers(registry.functions))
           removed == DeleteEach(registry.functions,
                                 SortedDescending(registered.indices_to_remove))
           written == registered.new_names # <<>> /\ ~dry_run /\ ~removed.raised
       IN  \E ids \in FreshIds(Len(registered.new_names),
                               IF written THEN Ids(removed.list) ELSE {}) :
             IF registered.new_names = <<>> \/ dry_run
             THEN /\ register_results' = registered.results
                  /\ config' = registry
                  /\ phase' = "returned"
                  /\ UNCHANGED writes
             ELSE IF removed.raised
                  THEN /\ register_results' =
                            Append(registered.results,
                                   BatchFailure("function_registration",
                                                IndexError))
                       /\ config' = registry
                       /\ phase' = "returned"
                       /\ UNCHANGED writes
                  ELSE /\ register_results' = registered.results
                       /\ config' = [registry EXCEPT !.functions =
                             SortById(removed.list \o
                                NewFunctions(registered.new_names, ids))]
                       /\ writes' = Append(writes, "functions")
                       /\ phase' = "writing_functions"
    /\ UNCHANGED <<settings, functionVars, registry, examplesVars, retryVars, pipelineVars>>

\* lines 1168-1174: update_space replaces the whole document
RegisterFunctionsWritten ==
    /\ phase = "writing_functions"
    /\ registry' = config
    /\ phase' = "returned"
    /\ UNCHANGED <<settings, functionVars, config, examplesVars,
                   register_results, writes, retryVars, pipelineVars>>

\* lines 1169-1187: update_space raises
RegisterFunctionsWriteFails ==
    /\ phase = "writing_functions"
    /\ register_results' =
          Append(register_results,
                 BatchFailure("function_registration", WriteError))
    /\ phase' = "returned"
    /\ UNCHANGED <<settings, functionVars, registry, config, examplesVars,
                   writes, retryVars, pipelineVars>>

\* every outcome of the run is a success or an "already exists"
NothingFailed(rs) ==
    \A k \in DOMAIN rs : rs[k].success \/ rs[k].error.cause[1] = "exists"

\* the run that returned was a full run without force that applied all of it
AppliedRun ==
    /\ ~force
    /\ ~dry_run
    /\ create_sql_instructions
    /\ create_uc_functions
    /\ register_uc_functions
    /\ NothingFailed(trusted_results)
    /\ NothingFailed(uc_results)
    /\ NothingFailed(register_results)

\* the pipeline is run again against the same log, with the registry as the
\* first run left it
SecondRun ==
    /\ phase = "returned"
    /\ run_no = "first"
    /\ run_no' = "second"
    /\ applied' = AppliedRun
    /\ force' \in BOOLEAN
    /\ phase' = "start"
    /\ futures' = <<>>
    /\ results' = <<>>
    /\ uc_results' = <<>>
    /\ created_functions' = <<>>
    /\ config' = None
    /\ candidates_to_process' = <<>>
    /\ indices_to_remove' = <<>>
    /\ guidance_futures' = <<>>
    /\ trusted_results' = <<>>
    /\ register_results' = <<>>
    /\ writes' = <<>>
    /\ UNCHANGED <<caller, configured, candidates, dry_run,
                   create_uc_functions, register_uc_functions, warehouse_id,
                   num_workers, create_sql_instructions, registry, retryVars, pipelineVars>>

NextRegistry ==
    \/ SkipSqlInstructions
    \/ TrustedAssetsEmpty
    \/ TrustedAssetsReadFails
    \/ TrustedAssetsFilter
    \/ \E i \in DOMAIN guidance_futures : GuidanceStart(i)
    \/ \E i \in DOMAIN guidance_futures : GuidanceEnds(i)
    \/ \E i \in DOMAIN guidance_futures : GuidanceCollect(i)
    \/ TrustedAssetsBuild
    \/ TrustedAssetsWritten
    \/ TrustedAssetsWriteFails
    \/ SkipUcFunctions
    \/ CreateUcFunctionsDirect
    \/ CreateUcFunctionsSubmit
    \/ \E i \in DOMAIN futures : TaskStart(i)
    \/ \E i \in DOMAIN futures : TaskEnds(i)
    \/ \E i \in DOMAIN futures : Collect(i)
    \/ CreateUcFunctionsReturn
    \/ RegisterFunctions
    \/ CreateAllReturnsUnregistered
    \/ RegisterReadFails
    \/ RegisterFunctionsRead
    \/ RegisterFunctionsWritten
    \/ RegisterFunctionsWriteFails
    \/ SecondRun

SpecRegistry == InitRegistry /\ [][NextRegistry]_vars

\* ------------------------------------------------------------------------
\* Properties of the registration calls (SpecRegistry)
\* ------------------------------------------------------------------------
\* an entry of the list has the normalized question of the given question
Known(examples, question) ==
    \E i \in DOMAIN examples :
        Normalized[examples[i].question] = Normalized[question]

IsAlreadyExists(r) == ~r.success /\ r.error.cause[1] = "exists"

BatchFailed(rs) == \E k \in DOMAIN rs : rs[k].name = BatchName

\* the step in which create_trusted_assets read the document and filtered
\* the batch
FilterStep ==
    /\ phase = "start"
    /\ phase' \in {"guidance", "create_all"}
    /\ create_sql_instructions
    /\ candidates # <<>>
    /\ ~BatchFailed(trusted_results')

\* the step in which update_space returned from the examples write
ExamplesWrittenStep ==
    /\ phase = "writing_examples"
    /\ phase' = "create_all"
    /\ ~BatchFailed(trusted_results')

\* C12: without force, the candidates whose normalized question is in the
\* registry get one "already exists" outcome each, in batch order, and are
\* not processed; every other candidate's question is processed and, when
\* the write succeeds, is in the registry; no entry that was in the registry
\* is missing or changed afterwards.
C12_ExistingSkipped ==
    /\ [][(FilterStep /\ ~force) =>
            LET known(c) == Known(registry.examples, c.question)
                skipped == SelectSeq(candidates, known)
            IN  /\ Len(trusted_results') = Len(skipped)
                /\ \A k \in DOMAIN skipped :
                     /\ IsAlreadyExists(trusted_results'[k])
                     /\ trusted_results'[k].name =
                           Prefix(skipped[k].question, ResultNameLimit)
                /\ \A k \in DOMAIN candidates_to_process' :
                     ~known(candidates_to_process'[k])
                /\ \A i \in DOMAIN candidates :
                     ~known(candidates[i]) =>
                        \E k \in DOMAIN candidates_to_process' :
                           Normalized[candidates_to_process'[k].question] =
                              Normalized[candidates[i].question]
                /\ indices_to_remove' = <<>>]_vars
    /\ [][~force =>
            \A i \in DOMAIN registry.examples :
               \E j \in DOMAIN registry'.examples :
                  registry'.examples[j] = registry.examples[i]]_vars
    /\ [][(ExamplesWrittenStep /\ ~force) =>
            \A k \in DOMAIN candidates_to_process :
               \E j \in DOMAIN registry'.examples :
                  registry'.examples[j].question =
                     candidates_to_process[k].question]_vars

\* one candidate was already registered, the other one was added to the two
\* entries the registry had
C12_Witness ==
    /\ ~force
    /\ run_no = "first"
    /\ phase = "create_all"
    /\ Len(registry.examples) = 3
    /\ Len(trusted_results) = 2
    /\ IsAlreadyExists(trusted_results[1])
    /\ trusted_results[2].success

\* C13: with force, in apply mode, the entries missing from the written
\* document are exactly those whose normalized question is that of a
\* candidate (each replaced by one new entry), every other entry is still
\* there, and the removal never fails.
C13_ForceRemovesMatches ==
    /\ [][(ExamplesWrittenStep /\ force) =>
            \A i \in DOMAIN registry.examples :
               LET entry == registry.examples[i]
                   matched == \E k \in DOMAIN candidates :
                                Normalized[candidates[k].question] =
                                   Normalized[entry.question]
               IN  IF matched
                   THEN Cardinality({j \in DOMAIN registry'.examples :
                           Normalized[registry'.examples[j].question] =
                              Normalized[entry.question]}) = 1
                   ELSE \E j \in DOMAIN registry'.examples :
                           registry'.examples[j] = entry]_vars
    /\ [](\A k \in DOMAIN trusted_results :
             trusted_results[k].error.cause # IndexError)

\* no two entries of a list of examples have the same normalized question
NoSharedQuestion(examples) ==
    \A i, j \in DOMAIN examples :
       i # j => Normalized[examples[i].question] #
                   Normalized[examples[j].question]

\* C14: the examples of the registry started without two entries of one
\* normalized question, and after any calls of create_trusted_assets (any
\* batch, force or not, dry run or not, first and second run) no two entries
\* of the registry, or of a document about to be written, share one.
C14_DedupInvariant ==
    /\ NoSharedQuestion(registry.examples)
    /\ phase = "writing_examples" => NoSharedQuestion(config.examples)

\* the second run replaced an entry of the registry the first run had
\* written to
C14_Witness ==
    /\ run_no = "second"
    /\ force
    /\ applied
    /\ phase = "create_all"
    /\ indices_to_remove # <<>>
    /\ writes = <<"examples">>
    /\ Len(registry.examples) >= 2

\* the list is in the order list.sort(key=id) leaves it in
SortedById(list) ==
    \A i, j \in DOMAIN list :
       i < j => ~IdLess(list[j].id, list[i].id)

\* the step in which update_space returned from the functions write
FunctionsWrittenStep ==
    /\ phase = "writing_functions"
    /\ phase' = "returned"
    /\ ~BatchFailed(register_results')

\* C15: the document create_trusted_assets hands to update_space has its
\* examples sorted by id and the one register_functions_with_genie hands to
\* it has its functions sorted by id, and so has the registry after the
\* write, whatever the order of the entries read and added.
C15_WrittenSorted ==
    /\ [](phase = "writing_examples" => SortedById(config.examples))
    /\ [](phase = "writing_functions" => SortedById(config.functions))
    /\ [][ExamplesWrittenStep => SortedById(registry'.examples)]_vars
    /\ [][FunctionsWrittenStep => SortedById(registry'.functions)]_vars

\* the examples were read out of order, one was added and the document
\* written; then a function was added to the list and the document written
C15_Witness ==
    /\ run_no = "first"
    /\ phase = "returned"
    /\ writes = <<"examples", "functions">>
    /\ Len(registry.examples) = 3
    /\ registry.examples[1].question = QTopSalesSpaced
    /\ Len(registry.functions) >= 1
    /\ ~BatchFailed(trusted_results)
    /\ ~BatchFailed(register_results)

\* C16: in a dry run no phase of create_all writes the registry document or
\* starts a task that submits statements to the engine: no update_space is
\* called, the registry stays as it was and no function task exists, for
\* every batch and every value of force, in the first and the second run.
C16_DryRunWritesNothing ==
    /\ [](dry_run =>
            /\ writes = <<>>
            /\ futures = <<>>
            /\ phase \notin {"pool", "writing_examples", "writing_functions"})
    /\ [][dry_run => registry' = registry]_vars

\* a dry run with force went through the three phases: an example and a
\* function reported as added, both already in the registry
C16_Witness ==
    /\ dry_run
    /\ force
    /\ phase = "returned"
    /\ registry = SortedRegistry
    /\ \E k \in DOMAIN trusted_results :
          /\ trusted_results[k].success
          /\ Known(registry.examples, trusted_results[k].name)
    /\ \E k \in DOMAIN uc_results : uc_results[k].success
    /\ \E k \in DOMAIN register_results :
          /\ register_results[k].success
          /\ register_results[k].name = registry.functions[1].identifier

\* the step in which create_trusted_assets returned to create_all without a
\* batch-level failure: after the filter, after the dry run's report or after
\* the write
TrustedAssetsReturnStep ==
    /\ create_sql_instructions
    /\ candidates # <<>>
    /\ phase \in {"start", "guidance", "writing_examples"}
    /\ phase' = "create_all"
    /\ ~BatchFailed(trusted_results')

\* the candidates of the batch that are already registered and not replaced
RegisteredOnes(examples, cs, frc) ==
    IF frc THEN <<>>
    ELSE SelectSeq(cs, LAMBDA c : Known(examples, c.question))

\* the positions of the new candidates of the batch: not already registered
\* (or replaced), and the first of the batch with their normalized question
NewOnes(examples, cs, frc) ==
    {i \in DOMAIN cs :
        /\ frc \/ ~Known(examples, cs[i].question)
        /\ \A j \in 1..(i - 1) :
             Normalized[cs[j].question] # Normalized[cs[i].question]}

\* the k-th position of a set of positions
NthOf(S, k) == CHOOSE i \in S : Cardinality({j \in S : j < i}) = k - 1

\* C17: the outcome list create_trusted_assets returns is the same function
\* of the registry read, the batch and force in a dry run and in a run whose
\* write succeeded: one "already exists" outcome per candidate already
\* registered (m of them, force not set), then one successful outcome per
\* new candidate (n of them), each named after its question.
C17_DryRunReportsAsApplied ==
    [][TrustedAssetsReturnStep =>
         LET old == RegisteredOnes(registry.examples, candidates, force)
             new == NewOnes(registry.examples, candidates, force)
             m == Len(old)
             n == Cardinality(new)
             rs == trusted_results'
         IN  /\ Len(rs) = m + n
             /\ Cardinality({k \in DOMAIN rs : rs[k].success}) = n
             /\ Cardinality({k \in DOMAIN rs : IsAlreadyExists(rs[k])}) = m
             /\ \A k \in 1..m :
                  /\ IsAlreadyExists(rs[k])
                  /\ rs[k].name = Prefix(old[k].question, ResultNameLimit)
             /\ \A k \in 1..n :
                  /\ rs[m + k].success
                  /\ rs[m + k].name =
                        Prefix(candidates[NthOf(new, k)].question,
                               ResultNameLimit)]_vars

\* a dry run without force returned one "already exists" and one successful
\* outcome and wrote nothing
C17_Witness ==
    /\ dry_run
    /\ ~force
    /\ run_no = "first"
    /\ phase = "create_all"
    /\ writes = <<>>
    /\ Len(trusted_results) = 2
    /\ IsAlreadyExists(trusted_results[1])
    /\ trusted_results[2].success

\* the second run, without force, after a first run that applied all of it
IdempotentRerun == run_no = "second" /\ applied /\ ~force

\* C18: when the first run applied successfully and the pipeline is run
\* again without force on the same candidates, the second run issues no
\* write, leaves the registry as it is and reports no example and no
\* function registration as done; when its reads succeed, every candidate
\* and every created function is reported as already existing.
C18_SecondRunAddsNothing ==
    /\ [](IdempotentRerun =>
            /\ writes = <<>>
            /\ phase \notin {"guidance", "writing_examples",
                             "writing_functions"}
            /\ \A k \in DOMAIN trusted_results : ~trusted_results[k].success
            /\ \A k \in DOMAIN register_results :
                  ~register_results[k].success)
    /\ [](IdempotentRerun /\ phase = "returned" =>
            /\ ~BatchFailed(trusted_results) =>
                  /\ Len(trusted_results) = Len(candidates)
                  /\ \A k \in DOMAIN trusted_results :
                        IsAlreadyExists(trusted_results[k])
            /\ (register_results # <<>> /\ ~BatchFailed(register_results)) =>
                  /\ Len(register_results) = Len(created_functions)
                  /\ \A k \in DOMAIN register_results :
                        IsAlreadyExists(register_results[k]))
    /\ [][IdempotentRerun => registry' = registry]_vars

\* the first run added an example and a function to the registry; the
\* second run found both candidates and the functions registered
C18_Witness ==
    /\ IdempotentRerun
    /\ phase = "returned"
    /\ registry \notin InitialRegistries
    /\ Len(registry.examples) = 3
    /\ Len(candidates) = 2
    /\ Len(trusted_results) = 2
    /\ \A k \in DOMAIN trusted_results : IsAlreadyExists(trusted_results[k])
    /\ register_results # <<>>
    /\ \A k \in DOMAIN register_results : IsAlreadyExists(register_results[k])

\* the last outcome of the list is a batch-level failure of a read or a
\* write of the document
EndsWithDocumentFailure(rs) ==
    /\ rs # <<>>
    /\ rs[Len(rs)].name = BatchName
    /\ rs[Len(rs)].error.cause \in {ReadError, WriteError}

\* the outcomes of a list that are batch-level
BatchOutcomes(rs) == {k \in DOMAIN rs : rs[k].name = BatchName}

\* C19: when get_space or update_space fails in create_trusted_assets or in
\* register_functions_with_genie the call returns (create_all goes on): the
\* outcomes recorded before the failure are returned as they were, one per
\* candidate not skipped silently, followed by exactly one batch-level
\* outcome that is not a success and carries the failure; the registry is
\* as it was.
C19_DocumentFailureReported ==
    /\ [][(trusted_results' # trusted_results
             /\ EndsWithDocumentFailure(trusted_results')) =>
            LET last == trusted_results'[Len(trusted_results')]
                old == RegisteredOnes(registry.examples, candidates, force)
                new == NewOnes(registry.examples, candidates, force)
            IN  /\ trusted_results' = Append(trusted_results, last)
                /\ ~last.success
                /\ BatchOutcomes(trusted_results) = {}
                /\ last.error.cause = ReadError => trusted_results = <<>>
                /\ last.error.cause = WriteError =>
                      Len(trusted_results) = Len(old) + Cardinality(new)
                /\ phase' = "create_all"
                /\ registry' = registry]_vars
    /\ [][(register_results' # register_results
             /\ EndsWithDocumentFailure(register_results')) =>
            LET last == register_results'[Len(register_results')]
            IN  /\ register_results' = Append(register_results, last)
                /\ ~last.success
                /\ BatchOutcomes(register_results) = {}
                /\ last.error.cause = ReadError => register_results = <<>>
                /\ last.error.cause = WriteError =>
                      Len(register_results) = Len(created_functions)
                /\ phase' = "returned"
                /\ registry' = registry]_vars
    /\ [](Cardinality(BatchOutcomes(trusted_results)) <= 1)
    /\ [](Cardinality(BatchOutcomes(register_results)) <= 1)

\* the examples write failed after an "already exists" and an added outcome,
\* create_all went on, and the functions write failed after a registered
\* outcome
C19_Witness ==
    /\ phase = "returned"
    /\ Len(trusted_results) = 3
    /\ IsAlreadyExists(trusted_results[1])
    /\ trusted_results[2].success
    /\ trusted_results[3] = BatchFailure("trusted_asset", WriteError)
    /\ Len(register_results) >= 2
    /\ register_results[1].success
    /\ register_results[Len(register_results)] =
          BatchFailure("function_registration", WriteError)

\* no task of a pool is queued or executing
PoolQuiet(fs) == \A i \in DOMAIN fs : fs[i].status = "collected"

WritePhases == {"writing_examples", "writing_functions"}

\* C20: the registry writes of a run are sequenced: update_space is called,
\* and is in progress, only when every task of the guidance pool and of the
\* function pool has ended; a call of update_space starts only when no other
\* is in progress; create_trusted_assets and register_functions_with_genie
\* call it at most once each in a run, the examples write first.
C20_WritesSequenced ==
    /\ [](phase \in WritePhases =>
            /\ PoolQuiet(guidance_futures)
            /\ PoolQuiet(futures))
    /\ [][writes' # writes /\ run_no' = run_no =>
            /\ phase \notin WritePhases
            /\ phase' \in WritePhases
            /\ PoolQuiet(guidance_futures)
            /\ PoolQuiet(futures)
            /\ Len(writes') = Len(writes) + 1]_vars
    /\ [](writes \in {<<>>, <<"examples">>, <<"functions">>,
                      <<"examples", "functions">>})

\* the functions write is in progress after the examples write, and both
\* pools have run two tasks
C20_Witness ==
    /\ phase = "writing_functions"
    /\ writes = <<"examples", "functions">>
    /\ Len(guidance_futures) = 2
    /\ Len(futures) = 2
    /\ num_workers >= 2

\* ------------------------------------------------------------------------
\* Two callers of create_trusted_assets on one registry (apply mode)
\* ------------------------------------------------------------------------
Callers == {1, 2}

\* each caller has its batch and its force; the registry is one a run can find
InitRace ==
    /\ GuidanceIdle
    /\ CallIdle
    /\ ReaderIdle
    /\ RetryIdle
    /\ RunIdle
    /\ registry \in InitialRegistries
    /\ force = FALSE
    /\ create_sql_instructions = FALSE
    /\ config = None
    /\ candidates_to_process = <<>>
    /\ indices_to_remove = <<>>
    /\ guidance_futures = <<>>
    /\ trusted_results = <<>>
    /\ register_results = <<>>
    /\ writes = <<>>
    /\ run_no = "first"
    /\ applied = FALSE
    /\ runs \in [Callers ->
          [candidates : RegistryBatches \ {<<>>}, force : BOOLEAN,
           phase : {"start"}, config : {None},
           candidates_to_process : {<<>>}, indices_to_remove : {<<>>}]]
    /\ written_by = <<>>

raceRest == <<retryVars, runVars, guidanceVars, readerVars, callVars, force, create_sql_instructions, config,
              candidates_to_process, indices_to_remove, guidance_futures,
              trusted_results, register_results, writes, run_no, applied>>

\* lines 288-352: caller r reads the document and filters its batch
RaceRead(r) ==
    /\ runs[r].phase = "start"
    /\ LET filtered == FilterCandidates(runs[r].candidates, runs[r].force,
                          ExistingQuestionMap(registry.examples))
       IN  runs' = [runs EXCEPT ![r] =
              [@ EXCEPT !.config = registry,
                        !.candidates_to_process =
                            filtered.candidates_to_process,
                        !.indices_to_remove = filtered.indices_to_remove,
                        !.phase = IF filtered.candidates_to_process = <<>>
                                  THEN "returned" ELSE "guidance"]]
    /\ UNCHANGED <<registry, written_by, raceRest>>

\* faulty variant of lines 438-455: the new entries are added to the
\* document as it is in the knowledge base at the time of the write
RaceWriteMerged(r) ==
    /\ runs[r].phase = "guidance"
    /\ \E ids \in FreshIds(Len(runs[r].candidates_to_process),
                           Ids(registry.examples)) :
         /\ registry' = [registry EXCEPT !.examples =
               SortById(@ \o NewExamples(runs[r].candidates_to_process, ids))]
         /\ runs' = [runs EXCEPT ![r].phase = "returned"]
         /\ written_by' = Append(written_by, r)
    /\ UNCHANGED raceRest

\* lines 354-470: after the guidance, caller r edits the document it read
\* and update_space replaces the document of the knowledge base with it
RaceWrite(r) ==
    /\ runs[r].phase = "guidance"
    /\ LET removed == DeleteEach(runs[r].config.examples,
                         SortedDescending(runs[r].indices_to_remove))
       IN  IF removed.raised
           THEN /\ runs' = [runs EXCEPT ![r].phase = "returned"]
                /\ UNCHANGED <<registry, written_by>>
           ELSE \E ids \in FreshIds(Len(runs[r].candidates_to_process),
                                    Ids(removed.list)) :
                  LET written == [runs[r].config EXCEPT !.examples =
                         SortById(removed.list \o
                            NewExamples(runs[r].candidates_to_process, ids))]
                  IN  /\ registry' = written
                      /\ runs' = [runs EXCEPT ![r].phase = "returned",
                                              ![r].config = written]
                      /\ written_by' = Append(written_by, r)
    /\ UNCHANGED raceRest

NextRace ==
    \/ \E r \in Callers : RaceRead(r)
    \/ \E r \in Callers : RaceWrite(r)

SpecRace == InitRace /\ [][NextRace]_vars

\* C21: update_space replaces the whole document, whatever was written since
\* the caller read it: after every write the registry is the last writer's
\* version of the document it read; that version is sorted by id and has no
\* two entries of one normalized question, whichever way the callers
\* interleave.
C21_LastWriterWins ==
    /\ written_by # <<>> =>
          /\ registry = runs[written_by[Len(written_by)]].config
          /\ SortedById(registry.examples)
    /\ NoSharedQuestion(registry.examples)

\* both callers read before either wrote; the first writer added an entry
\* that the second writer's version does not have, and it is gone
C21_Witness ==
    /\ written_by = <<1, 2>>
    /\ ~runs[1].force
    /\ ~runs[2].force
    /\ runs[1].config.examples # runs[2].config.examples
    /\ registry = runs[2].config
    /\ \E i \in DOMAIN runs[1].candidates_to_process :
          /\ ~Known(runs[2].config.examples,
                    runs[1].candidates_to_process[i].question)
          /\ ~Known(registry.examples,
                    runs[1].candidates_to_process[i].question)
    /\ Len(registry.examples) < Len(runs[1].config.examples)

\* ------------------------------------------------------------------------
\* register_functions_with_genie called with any list of function names
\* ------------------------------------------------------------------------
InitRegister ==
    /\ PipelineIdle
    /\ RetryIdle
    /\ caller = "api"
    /\ configured = 0
    /\ num_workers = DefaultNumWorkers
    /\ warehouse_id = TRUE
    /\ candidates = <<>>
    /\ dry_run \in BOOLEAN
    /\ force \in BOOLEAN
    /\ create_sql_instructions = FALSE
    /\ create_uc_functions = FALSE
    /\ register_uc_functions = TRUE
    /\ registry \in InitialRegistries
    /\ phase = "registering"
    /\ futures = <<>>
    /\ results = <<>>
    /\ uc_results = <<>>
    /\ created_functions \in
          UNION {[1..n -> {FullName(FunctionNames[c]) : c \in RegistryCandidates}] :
                    n \in 1..MaxRegistryBatch}
    /\ config = None
    /\ candidates_to_process = <<>>
    /\ indices_to_remove = <<>>
    /\ guidance_futures = <<>>
    /\ trusted_results = <<>>
    /\ register_results = <<>>
    /\ writes = <<>>
    /\ run_no = "first"
    /\ applied = FALSE

NextRegister ==
    \/ RegisterReadFails
    \/ RegisterFunctionsRead
    \/ RegisterFunctionsWritten
    \/ RegisterFunctionsWriteFails

SpecRegister == InitRegister /\ [][NextRegister]_vars

\* C22: the function registry never holds two entries of one identifier,
\* whatever list of names is registered; without force a registered name
\* gets an "already registered" outcome and its entry stays; with force the
\* entries missing from the written list are exactly those whose identifier
\* is in the list of names, each replaced by one new entry, and the removal
\* never fails.
C22_RegisterSemantics ==
    /\ [](\A i, j \in DOMAIN registry.functions :
             i # j => registry.functions[i].identifier #
                         registry.functions[j].identifier)
    /\ [][FunctionsWrittenStep =>
            \A i \in DOMAIN registry.functions :
               LET entry == registry.functions[i]
                   named == \E k \in DOMAIN created_functions :
                               created_functions[k] = entry.identifier
               IN  IF named /\ force
                   THEN Cardinality({j \in DOMAIN registry'.functions :
                           registry'.functions[j].identifier =
                              entry.identifier}) = 1
                   ELSE \E j \in DOMAIN registry'.functions :
                           registry'.functions[j] = entry]_vars
    /\ [](\A k \in DOMAIN register_results :
             /\ register_results[k].error.cause # IndexError
             /\ (IsAlreadyExists(register_results[k]) =>
                   /\ ~force
                   /\ \E i \in DOMAIN registry.functions :
                         registry.functions[i].identifier =
                            register_results[k].name))

\* ------------------------------------------------------------------------
\* The usage guidance of create_trusted_assets
\* ------------------------------------------------------------------------
\* what the text-generation call does: it returns a text, returns blank
\* content, or raises
Responses == {"text", "blank", "raises"}

\* lines 226-261: _generate_usage_guidance for one response of the call;
\* strip() of blank content is the empty string
GenerateUsageGuidance(candidate, response) ==
    IF response = "text" THEN <<"generated", candidate.question>>
    ELSE IF response = "blank" THEN <<>>
    ELSE <<"Use this query to answer: ", Prefix(candidate.question, 100)>>

\* create_trusted_assets at line 360 with a filtered batch: candidates of
\* pairwise different normalized questions
InitGuidance ==
    /\ RaceIdle
    /\ CallIdle
    /\ ReaderIdle
    /\ RetryIdle
    /\ caller = "api"
    /\ configured = 0
    /\ num_workers \in {1, DefaultNumWorkers}
    /\ warehouse_id = TRUE
    /\ candidates = <<>>
    /\ dry_run = FALSE
    /\ force = FALSE
    /\ create_sql_instructions = TRUE
    /\ create_uc_functions = FALSE
    /\ register_uc_functions = FALSE
    /\ registry = EmptyDocument
    /\ phase = "guidance"
    /\ futures = <<>>
    /\ results = <<>>
    /\ uc_results = <<>>
    /\ created_functions = <<>>
    /\ config = registry
    /\ candidates_to_process \in
          {b \in RegistryBatches \ {<<>>} :
              \A i, j \in DOMAIN b :
                 i # j => Normalized[b[i].question] # Normalized[b[j].question]}
    /\ guidance_futures = SubmittedGuidance(candidates_to_process)
    /\ indices_to_remove = <<>>
    /\ trusted_results = <<>>
    /\ register_results = <<>>
    /\ writes = <<>>
    /\ run_no = "first"
    /\ applied = FALSE
    /\ guidance_map = <<>>
    /\ new_examples = <<>>

guidanceRest == <<settings, functionVars, registry, config,
                  candidates_to_process, indices_to_remove, trusted_results,
                  register_results, writes, phase, retryVars, raceVars,
                  readerVars, callVars>>

\* the task's call of _generate_usage_guidance returns
GuidanceReturns(i) ==
    /\ phase = "guidance"
    /\ guidance_futures[i].status = "running"
    /\ \E response \in Responses :
         guidance_futures' = [guidance_futures EXCEPT ![i] =
            [candidate |-> @.candidate, status |-> "done",
             guidance |-> GenerateUsageGuidance(@.candidate, response)]]
    /\ UNCHANGED <<guidanceRest, guidanceVars>>

\* lines 368-372: as_completed yields a finished future, its guidance is
\* stored under the question of its candidate
GuidanceYielded(i) ==
    /\ phase = "guidance"
    /\ guidance_futures[i].status = "done"
    /\ guidance_futures' = [guidance_futures EXCEPT ![i].status = "collected"]
    /\ LET candidate == guidance_futures[i].candidate
       IN  guidance_map' =
              [q \in DOMAIN guidance_map \cup {candidate.question} |->
                  IF q = candidate.question
                  THEN guidance_futures[i].guidance ELSE guidance_map[q]]
    /\ UNCHANGED <<guidanceRest, new_examples>>

\* lines 382-424: one entry per candidate to process, with the guidance
\* stored under its question
ExamplesBuilt ==
    /\ phase = "guidance"
    /\ GuidanceLoopEnded(guidance_futures)
    /\ new_examples' =
          [i \in DOMAIN candidates_to_process |->
              LET candidate == candidates_to_process[i]
              IN  [question |-> candidate.question,
                   usage_guidance |->
                      IF candidate.question \in DOMAIN guidance_map
                      THEN guidance_map[candidate.question]
                      ELSE GenerateUsageGuidance(candidate, "raises")]]
    /\ trusted_results' = trusted_results \o AddedResults(candidates_to_process)
    /\ phase' = "built"
    /\ UNCHANGED <<settings, functionVars, registry, config,
                   candidates_to_process, indices_to_remove, guidance_futures,
                   register_results, writes, retryVars, raceVars,
                   readerVars, callVars, guidance_map>>

NextGuidance ==
    \/ \E i \in DOMAIN guidance_futures : GuidanceStart(i)
    \/ \E i \in DOMAIN guidance_futures : GuidanceReturns(i)
    \/ \E i \in DOMAIN guidance_futures : GuidanceYielded(i)
    \/ ExamplesBuilt

SpecGuidance == InitGuidance /\ [][NextGuidance]_vars

\* C23: when the entries are built there is exactly one per candidate to
\* process, in order, each with a usage guidance that is not empty and is
\* the text generated for its own question or the fallback text of its own
\* question, whatever order the tasks ended in, and the batch did not fail.
C23_GuidancePerCandidate ==
    phase = "built" =>
       /\ Len(new_examples) = Len(candidates_to_process)
       /\ ~BatchFailed(trusted_results)
       /\ \A i \in DOMAIN new_examples :
            LET candidate == candidates_to_process[i]
            IN  /\ new_examples[i].question = candidate.question
                /\ new_examples[i].usage_guidance # <<>>
                /\ new_examples[i].usage_guidance \in
                      {GenerateUsageGuidance(candidate, "text"),
                       GenerateUsageGuidance(candidate, "raises")}

\* ------------------------------------------------------------------------
\* extract_all_queries (conversation_reader.py)
\* ------------------------------------------------------------------------
SUCCESSFUL_STATUSES == {"COMPLETED", "EXECUTING_QUERY"}

\* the messages of the logs: content, whether there are attachments, status,
\* whether an attachment holds SQL, whether get_message gives SQL
Messages ==
    { [content |-> QTopSales, attachments |-> FALSE, status |-> None,
       sql |-> FALSE, fetched |-> FALSE],
      [content |-> QTopSalesSpaced, attachments |-> FALSE, status |-> None,
       sql |-> FALSE, fetched |-> FALSE],
      [content |-> <<>>, attachments |-> FALSE, status |-> "COMPLETED",
       sql |-> FALSE, fetched |-> TRUE],
      [content |-> QTopSalesSpaced, attachments |-> TRUE,
       status |-> "COMPLETED", sql |-> TRUE, fetched |-> FALSE],
      [content |-> <<>>, attachments |-> TRUE, status |-> "EXECUTING_QUERY",
       sql |-> TRUE, fetched |-> FALSE],
      [content |-> <<>>, attachments |-> TRUE, status |-> "FAILED",
       sql |-> TRUE, fetched |-> FALSE],
      [content |-> <<>>, attachments |-> TRUE, status |-> None,
       sql |-> FALSE, fetched |-> TRUE],
      [content |-> <<>>, attachments |-> TRUE, status |-> "COMPLETED",
       sql |-> FALSE, fetched |-> FALSE] }

\* a log written flat: this item opens a conversation, the messages after
\* it are its messages
Opening ==
    [content |-> <<>>, attachments |-> FALSE, status |-> "conversation",
     sql |-> FALSE, fetched |-> FALSE]

RECURSIVE Grouped(_)
Grouped(flat) ==
    IF flat = <<>> THEN <<>>
    ELSE LET before == Grouped(SubSeq(flat, 1, Len(flat) - 1))
             item == flat[Len(flat)]
         IN  IF item = Opening
             THEN Append(before, [title |-> QNineLives, messages |-> <<>>])
             ELSE [before EXCEPT ![Len(before)].messages = Append(@, item)]

ConversationLogs ==
    {<<>>} \cup
    {Grouped(<<Opening>> \o rest) :
        rest \in UNION {[1..n -> Messages \cup {Opening}] :
                           n \in 0..(MaxLog - 1)}}

InitReader ==
    /\ RaceIdle
    /\ CallIdle
    /\ GuidanceIdle
    /\ RetryIdle
    /\ RunIdle
    /\ RegistryIdle
    /\ conversations \in ConversationLogs
    /\ conv_no = 0
    /\ msg_no = 0
    /\ last_user_question = None
    /\ seen_questions = {}
    /\ queries = <<>>
    /\ duplicates_skipped = 0

\* lines 268-282
IsSuccessfulMessage(message) ==
    IF message.status = None THEN message.attachments
    ELSE message.status \in SUCCESSFUL_STATUSES

\* lines 381-384: the message is taken as a user question
IsUserQuestion(msg) == msg.content # <<>> /\ ~msg.attachments

\* lines 386-404: the message is successful and SQL is found in it or in
\* the full message fetched by its id
YieldsSql(msg) ==
    /\ ~IsUserQuestion(msg)
    /\ IsSuccessfulMessage(msg)
    /\ msg.sql \/ msg.fetched

\* faulty variant of lines 378-423: the normalized question is not added to
\* seen_questions
ExtractFromUnseen(st, msg, title, id) ==
    IF IsUserQuestion(msg)
    THEN [st EXCEPT !.last_user_question = msg.content]
    ELSE IF ~YieldsSql(msg) THEN st
    ELSE LET question ==
                IF st.last_user_question # None THEN st.last_user_question
                ELSE IF msg.content # <<>> THEN msg.content ELSE title
         IN  IF Normalized[question] \in st.seen_questions
             THEN [st EXCEPT !.duplicates_skipped = @ + 1,
                             !.last_user_question = None]
             ELSE [st EXCEPT
                     !.queries = Append(@, [question |-> question,
                                            message_id |-> id]),
                     !.last_user_question = None]

\* faulty variant of lines 378-423: a dropped duplicate leaves the pending
\* question in place
ExtractFromKeepsPending(st, msg, title, id) ==
    IF IsUserQuestion(msg)
    THEN [st EXCEPT !.last_user_question = msg.content]
    ELSE IF ~YieldsSql(msg) THEN st
    ELSE LET question ==
                IF st.last_user_question # None THEN st.last_user_question
                ELSE IF msg.content # <<>> THEN msg.content ELSE title
         IN  IF Normalized[question] \in st.seen_questions
             THEN [st EXCEPT !.duplicates_skipped = @ + 1]
             ELSE [st EXCEPT
                     !.seen_questions = @ \cup {Normalized[question]},
                     !.queries = Append(@, [question |-> question,
                                            message_id |-> id]),
                     !.last_user_question = None]

\* lines 378-423: the body of the loop over the messages
ExtractFrom(st, msg, title, id) ==
    IF IsUserQuestion(msg)
    THEN [st EXCEPT !.last_user_question = msg.content]
    ELSE IF ~YieldsSql(msg) THEN st
    ELSE LET question ==
                IF st.last_user_question # None THEN st.last_user_question
                ELSE IF msg.content # <<>> THEN msg.content ELSE title
         IN  IF Normalized[question] \in st.seen_questions
             THEN [st EXCEPT !.duplicates_skipped = @ + 1,
                             !.last_user_question = None]
             ELSE [st EXCEPT
                     !.seen_questions = @ \cup {Normalized[question]},
                     !.queries = Append(@, [question |-> question,
                                            message_id |-> id]),
                     !.last_user_question = None]

readerRest == <<retryVars, runVars, regVars, raceVars, guidanceVars,
                callVars>>

\* lines 363-376: the first or the next conversation, its messages are read
\* and no question is pending
NextConversation ==
    /\ conv_no < Len(conversations)
    /\ conv_no > 0 => msg_no = Len(conversations[conv_no].messages)
    /\ conv_no' = conv_no + 1
    /\ msg_no' = 0
    /\ last_user_question' = None
    /\ UNCHANGED <<conversations, seen_questions, queries, duplicates_skipped,
                   readerRest>>

\* lines 378-423: the next message of the conversation
NextMessage ==
    /\ conv_no > 0
    /\ msg_no < Len(conversations[conv_no].messages)
    /\ msg_no' = msg_no + 1
    /\ LET st == ExtractFrom(
                    [last_user_question |-> last_user_question,
                     seen_questions |-> seen_questions,
                     queries |-> queries,
                     duplicates_skipped |-> duplicates_skipped],
                    conversations[conv_no].messages[msg_no'],
                    conversations[conv_no].title, <<conv_no, msg_no'>>)
       IN  /\ last_user_question' = st.last_user_question
           /\ seen_questions' = st.seen_questions
           /\ queries' = st.queries
           /\ duplicates_skipped' = st.duplicates_skipped
    /\ UNCHANGED <<conversations, conv_no, readerRest>>

NextReader == NextConversation \/ NextMessage

SpecReader == InitReader /\ [][NextReader]_vars

\* every conversation and every message was gone through
ReaderDone ==
    /\ conv_no = Len(conversations)
    /\ conv_no > 0 => msg_no = Len(conversations[conv_no].messages)

\* the messages of the log that yield SQL, as <<conversation, message>>
SqlMessages ==
    {id \in UNION {{<<c, m>> : m \in DOMAIN conversations[c].messages} :
                      c \in DOMAIN conversations} :
        YieldsSql(conversations[id[1]].messages[id[2]])}

\* C24: no two queries of the list have the same normalized question, at
\* any point of the run and over all its conversations; every message that
\* yields SQL is either in the list or counted in duplicates_skipped.
C24_UniqueNormalizedQuestions ==
    /\ \A i, j \in DOMAIN queries :
          i # j => Normalized[queries[i].question] #
                      Normalized[queries[j].question]
    /\ seen_questions =
          {Normalized[queries[i].question] : i \in DOMAIN queries}
    /\ ReaderDone =>
          Len(queries) + duplicates_skipped = Cardinality(SqlMessages)

\* two conversations ask the same question in different case and spacing:
\* one query is extracted, the other pair is counted as a duplicate
C24_Witness ==
    /\ ReaderDone
    /\ Len(conversations) = 2
    /\ Len(conversations[1].messages) = 2
    /\ Len(conversations[2].messages) = 1
    /\ conversations[1].messages[1].content = QTopSales
    /\ conversations[2].messages[1].content = QTopSalesSpaced
    /\ SqlMessages = {<<1, 2>>, <<2, 1>>}
    /\ queries = <<[question |-> QTopSales, message_id |-> <<1, 2>>]>>
    /\ duplicates_skipped = 1

\* the question pending after message msg_no of conversation conv_no, read
\* off the log: the content of the latest message taken as a user question
\* that no later message yielding SQL has followed
PendingQuestion ==
    IF conv_no = 0 THEN None
    ELSE LET msgs == conversations[conv_no].messages
             asked == {k \in 1..msg_no :
                         /\ IsUserQuestion(msgs[k])
                         /\ \A j \in (k + 1)..msg_no : ~YieldsSql(msgs[j])}
         IN  IF asked = {} THEN None
             ELSE msgs[CHOOSE k \in asked : \A j \in asked : j <= k].content

\* C25: at every point the pending question is the content of the most
\* recent message of the current conversation that has content and no
\* attachments and that no message yielding SQL has followed; a message
\* yielding SQL takes the pending question as its question and clears it,
\* also when the pair is dropped as a duplicate, and a new conversation
\* starts with no pending question.
C25_PendingQuestion ==
    /\ [](last_user_question = PendingQuestion)
    /\ [][(Len(queries') > Len(queries) /\ last_user_question # None) =>
            /\ queries'[Len(queries')].question = last_user_question
            /\ last_user_question' = None]_vars
    /\ [][duplicates_skipped' > duplicates_skipped =>
            last_user_question' = None]_vars
    /\ [][conv_no' # conv_no => last_user_question' = None]_vars

\* of two questions the later one is paired with the first SQL message; the
\* second SQL message finds no pending question and takes the title
C25_Witness ==
    /\ ReaderDone
    /\ Len(conversations) = 1
    /\ Len(conversations[1].messages) = 4
    /\ conversations[1].messages[1].content = QTopSalesSpaced
    /\ conversations[1].messages[2].content = QTopSales
    /\ queries = <<[question |-> QTopSales, message_id |-> <<1, 3>>],
                   [question |-> QNineLives, message_id |-> <<1, 4>>]>>

\* ---------------------------------------------------------------------
\* Single functions, each called once on arguments of a bounded set
\* (conversation_reader.py, complexity_evaluator.py).  An optional integer
\* is <<>> when it is None and <<n>> when it is n.
\* ---------------------------------------------------------------------

\* creation times of the conversations of the space, and the bounds set
Times == {1, 3}

\* one response of the listing: up to MaxPageSize creation times
Pages == UNION {[1..n -> Times] : n \in 0..MaxPageSize}

\* list_conversations on a source of up to MaxPages responses (a response
\* carries a next page token when another one follows it), under every
\* setting of the two bounds and of the cap
ListCalls ==
    [fn : {"list_conversations"},
     pages : UNION {[1..n -> Pages] : n \in 0..MaxPages},
     from_timestamp : {<<>>} \cup {<<t>> : t \in Times},
     to_timestamp : {<<>>} \cup {<<t>> : t \in Times},
     max_conversations : {<<>>, <<0>>, <<1>>, <<2>>}]

\* lines 177, 190: max_conversations and len(conversations) >= max_conversations
CapReached(a, conversations_) ==
    /\ a.max_conversations # <<>>
    /\ a.max_conversations[1] # 0
    /\ Len(conversations_) >= a.max_conversations[1]

\* the loop of lines 176-188 with the bounds compared strictly
RECURSIVE ListPageStrict(_, _, _, _)
ListPageStrict(a, p, i, conversations_) ==
    IF i > Len(a.pages[p]) \/ CapReached(a, conversations_) THEN conversations_
    ELSE LET conv == [id |-> <<p, i>>, created_timestamp |-> a.pages[p][i]]
         IN  IF \/ /\ a.from_timestamp # <<>>
                   /\ conv.created_timestamp <= a.from_timestamp[1]
                \/ /\ a.to_timestamp # <<>>
                   /\ conv.created_timestamp >= a.to_timestamp[1]
             THEN ListPageStrict(a, p, i + 1, conversations_)
             ELSE ListPageStrict(a, p, i + 1, Append(conversations_, conv))

\* lines 176-188: the conversations of response p from the i-th on
RECURSIVE ListPage(_, _, _, _)
ListPage(a, p, i, conversations_) ==
    IF i > Len(a.pages[p]) \/ CapReached(a, conversations_) THEN conversations_
    ELSE LET conv == [id |-> <<p, i>>, created_timestamp |-> a.pages[p][i]]
         IN  IF \/ /\ a.from_timestamp # <<>>
                   /\ conv.created_timestamp < a.from_timestamp[1]
                \/ /\ a.to_timestamp # <<>>
                   /\ conv.created_timestamp > a.to_timestamp[1]
             THEN ListPage(a, p, i + 1, conversations_)
             ELSE ListPage(a, p, i + 1, Append(conversations_, conv))

\* lines 164-201: the loop over the responses, from response p on
RECURSIVE ListConversations(_, _, _)
ListConversations(a, p, conversations_) ==
    IF p > Len(a.pages) \/ a.pages[p] = <<>> THEN conversations_
    ELSE LET listed == ListPage(a, p, 1, conversations_)
         IN  IF CapReached(a, listed) \/ p = Len(a.pages) THEN listed
             ELSE ListConversations(a, p + 1, listed)

\* list_conversations is called and returns
ListConversationsReturns ==
    /\ call.fn = "list_conversations"
    /\ returned.status = "pending"
    /\ returned' = [status |-> "returned",
                    value |-> ListConversations(call, 1, <<>>)]
    /\ UNCHANGED <<call, retryVars, runVars, regVars, raceVars, guidanceVars,
                   readerVars>>

\* the conversations the source delivers: those of its responses up to the
\* first empty one
Delivered ==
    {[id |-> <<p, i>>, created_timestamp |-> call.pages[p][i]] :
        <<p, i>> \in {<<q, j>> \in (1..MaxPages) \X (1..MaxPageSize) :
                        /\ q <= Len(call.pages)
                        /\ j <= Len(call.pages[q])
                        /\ \A r \in 1..q : call.pages[r] # <<>>}}

\* the creation time lies within every bound that is set, bounds included
InWindow(conv) ==
    /\ call.from_timestamp # <<>> =>
           call.from_timestamp[1] <= conv.created_timestamp
    /\ call.to_timestamp # <<>> =>
           conv.created_timestamp <= call.to_timestamp[1]

\* C26: list_conversations returns only delivered conversations whose
\* creation time t satisfies from <= t <= to for every bound that is set,
\* each of them once, and every delivered conversation satisfying the bounds
\* is returned unless the number returned has reached the cap.
C26_TimeWindow ==
    (call.fn = "list_conversations" /\ returned.status = "returned") =>
        LET value == returned.value
        IN  /\ \A k \in 1..Len(value) :
                /\ value[k] \in Delivered
                /\ InWindow(value[k])
                /\ \A j \in 1..Len(value) : value[j] = value[k] => j = k
            /\ \A conv \in Delivered :
                InWindow(conv) =>
                    \/ \E k \in 1..Len(value) : value[k] = conv
                    \/ /\ call.max_conversations # <<>>
                       /\ Len(value) >= call.max_conversations[1]

\* with both bounds at 3 and no cap the two conversations created at 3 are
\* returned and the one created at 1 is not
C26_Witness ==
    /\ call.fn = "list_conversations"
    /\ returned.status = "returned"
    /\ call.from_timestamp = <<3>>
    /\ call.to_timestamp = <<3>>
    /\ call.max_conversations = <<>>
    /\ call.pages = <<<<1, 3>>, <<3>>>>
    /\ Len(returned.value) = 2

\* the instant of a call of parse_timestamp (datetime.now): whole minutes
\* since 1970-01-01T00:00Z and the microseconds into the minute;
\* 2026-11-02T12:00:00.123456Z and 2026-01-15T00:00:59.999999Z
Nows ==
    {[minutes |-> 29893680, micros |-> 123456],
     [minutes |-> 29473920, micros |-> 59999999]}

\* relative strings, each with the minutes it stands for
RelativeStrings ==
    {[text |-> <<"7", "d">>, minutes |-> 10080],
     [text |-> <<"2", "4", "h">>, minutes |-> 1440],
     [text |-> <<"3", "0", "m">>, minutes |-> 30],
     [text |-> <<"1", "w">>, minutes |-> 10080],
     [text |-> <<" ", "7", "D", " ">>, minutes |-> 10080],
     [text |-> <<"0", "m">>, minutes |-> 0],
     [text |-> <<"8", "0", "0", "0", "0", "0", "d">>, minutes |-> 1152000000]}

\* bare calendar dates, each with its midnight UTC in minutes since 1970
DateStrings ==
    {[text |-> <<"2", "0", "2", "6", "-", "0", "1", "-", "1", "5">>,
      minutes |-> 29473920],
     [text |-> <<"1", "9", "7", "0", "-", "0", "1", "-", "0", "1">>,
      minutes |-> 0],
     [text |-> <<"2", "0", "2", "4", "-", "0", "2", "-", "2", "9">>,
      minutes |-> 28486080],
     [text |-> <<"2", "0", "2", "6", "-", "1", "-", "5">>,
      minutes |-> 29459520]}

\* ISO 8601 strings without fraction and without numeric offset
IsoStrings ==
    {<<"2", "0", "2", "6", "-", "0", "1", "-", "1", "5", "T", "1", "0", ":", "3", "0", ":", "0", "0">>,
     <<"2", "0", "2", "6", "-", "0", "1", "-", "1", "5", "T", "1", "0", ":", "3", "0", ":", "0", "0", "Z">>}

\* strings of none of the supported forms
UnsupportedStrings ==
    {<<"n", "o", "t", "-", "a", "-", "d", "a", "t", "e">>,
     <<"7", "x">>,
     <<"d">>,
     <<>>,
     <<"7", " ", "d">>,
     <<"-", "7", "d">>,
     <<"2", "0", "2", "6", "-", "1", "3", "-", "0", "1">>,
     <<"2", "0", "2", "6", "-", "0", "2", "-", "3", "0">>,
     <<"2", "0", "2", "6", "-", "0", "1", "-", "1", "5", "T", "2", "5", ":", "0", "0", ":", "0", "0">>}

ParseCalls ==
    [fn : {"parse_timestamp"},
     timestamp_str : {r.text : r \in RelativeStrings \cup DateStrings}
                        \cup IsoStrings \cup UnsupportedStrings,
     now : Nows]

\* str.strip()
RECURSIVE Strip(_)
Strip(s) ==
    IF s = <<>> THEN s
    ELSE IF Head(s) \in SpaceChars THEN Strip(Tail(s))
    ELSE IF s[Len(s)] \in SpaceChars THEN Strip(SubSeq(s, 1, Len(s) - 1))
    ELSE s

\* \d+ : a non-empty run of digits
IsDigits(s) == s # <<>> /\ \A i \in DOMAIN s : s[i] \in DigitChars

\* int() of a run of digits
RECURSIVE ToInt(_)
ToInt(s) ==
    IF s = <<>> THEN 0
    ELSE ToInt(SubSeq(s, 1, Len(s) - 1)) * 10
         + (CHOOSE d \in 0..9 :
                <<"0", "1", "2", "3", "4", "5", "6", "7", "8", "9">>[d + 1]
                    = s[Len(s)])

\* the pieces of s between the occurrences of the character sep
RECURSIVE Pieces(_, _)
Pieces(s, sep) ==
    IF \A i \in DOMAIN s : s[i] # sep THEN <<s>>
    ELSE LET k == CHOOSE i \in DOMAIN s :
                      s[i] = sep /\ \A j \in 1..(i - 1) : s[j] # sep
         IN  <<SubSeq(s, 1, k - 1)>> \o Pieces(SubSeq(s, k + 1, Len(s)), sep)

\* datetime.strptime(s, "%Y-%m-%d") followed by timestamp(): the days from
\* 1970-01-01 to the date, in a one-element sequence, or <<>> when strptime
\* raises ValueError: the year has four digits, month and day one or two,
\* and the day exists in the month
DateDays(s) ==
    LET p == Pieces(s, "-")
    IN  IF ~(/\ Len(p) = 3
             /\ \A i \in 1..3 : IsDigits(p[i])
             /\ Len(p[1]) = 4
             /\ Len(p[2]) <= 2
             /\ Len(p[3]) <= 2)
        THEN <<>>
        ELSE LET y == ToInt(p[1])
                 m == ToInt(p[2])
                 d == ToInt(p[3])
                 leap == y % 4 = 0 /\ (y % 100 # 0 \/ y % 400 = 0)
                 in_month == <<31, IF leap THEN 29 ELSE 28, 31, 30, 31, 30,
                               31, 31, 30, 31, 30, 31>>
                 before_month == <<0, 31, 59, 90, 120, 151, 181, 212, 243,
                                   273, 304, 334>>
                 before_year == (y - 1) * 365 + (y - 1) \div 4
                                - (y - 1) \div 100 + (y - 1) \div 400
             IN  IF ~(y >= 1 /\ m \in 1..12) THEN <<>>
                 ELSE IF ~(d \in 1..in_month[m]) THEN <<>>
                 ELSE <<before_year + before_month[m]
                        + (IF m > 2 /\ leap THEN 1 ELSE 0) + d - 719163>>

\* lines 71-89 for a string without fraction of a second: strptime with
\* "%Y-%m-%dT%H:%M:%S%z" or "%Y-%m-%dT%H:%M:%S" after every "Z" became
\* "+00:00", taken as UTC; the minutes from 1970 and the milliseconds into
\* the minute, in a one-element sequence, or <<>> when no format matches
IsoInstant(s) ==
    LET p == Pieces(s, "T")
    IN  IF Len(p) # 2 THEN <<>>
        ELSE LET days == DateDays(p[1])
                 zulu == p[2] # <<>> /\ p[2][Len(p[2])] = "Z"
                 clock == Pieces(IF zulu THEN SubSeq(p[2], 1, Len(p[2]) - 1)
                                 ELSE p[2], ":")
             IN  IF ~(/\ days # <<>>
                      /\ Len(clock) = 3
                      /\ \A i \in 1..3 : IsDigits(clock[i]) /\ Len(clock[i]) <= 2)
                 THEN <<>>
                 ELSE IF ~(/\ ToInt(clock[1]) <= 23
                           /\ ToInt(clock[2]) <= 59
                           /\ ToInt(clock[3]) <= 59)
                 THEN <<>>
                 ELSE <<[minutes |-> days[1] * 1440 + ToInt(clock[1]) * 60
                                     + ToInt(clock[2]),
                         millis |-> ToInt(clock[3]) * 1000]>>

\* lines 28-104.  An instant in Unix milliseconds is written as whole
\* minutes and the milliseconds into the minute.  datetime arithmetic
\* raises OverflowError when the result precedes 0001-01-01T00:00.
ParseTimestamp(timestamp_str, now) ==
    LET s == Strip(timestamp_str)
    IN  IF Len(s) >= 2 /\ IsDigits(SubSeq(s, 1, Len(s) - 1))
                       /\ LowerChar(s[Len(s)]) \in {"d", "h", "w", "m"}
        THEN LET value == ToInt(SubSeq(s, 1, Len(s) - 1))
                 unit == LowerChar(s[Len(s)])
                 delta == CASE unit = "m" -> value
                            [] unit = "h" -> value * 60
                            [] unit = "d" -> value * 1440
                            [] unit = "w" -> value * 10080
                 target_time == [minutes |-> now.minutes - delta,
                                 micros |-> now.micros]
             IN  IF target_time.minutes < (1 - 719163) * 1440
                 THEN [status |-> "raised",
                       error |-> "OverflowError: date value out of range"]
                 ELSE [status |-> "returned",
                       value |-> [minutes |-> target_time.minutes,
                                  millis |-> target_time.micros \div 1000]]
        ELSE IF IsoInstant(s) # <<>>
        THEN [status |-> "returned", value |-> IsoInstant(s)[1]]
        ELSE IF DateDays(s) # <<>>
        THEN [status |-> "returned",
              value |-> [minutes |-> DateDays(s)[1] * 1440, millis |-> 0]]
        ELSE [status |-> "raised", error |-> "ValueError: Supported formats"]

\* parse_timestamp is called and returns or raises
ParseTimestampReturns ==
    /\ call.fn = "parse_timestamp"
    /\ returned.status = "pending"
    /\ returned' = ParseTimestamp(call.timestamp_str, call.now)
    /\ UNCHANGED <<call, retryVars, runVars, regVars, raceVars, guidanceVars,
                   readerVars>>

\* C27: parse_timestamp maps a relative string of N units (m, h, d, w),
\* parsed at instant T, to T minus N units in Unix milliseconds, maps a bare
\* calendar date to midnight UTC of that date in milliseconds, and raises
\* the format error listing the supported forms, returning no value, for an
\* input of none of the supported forms.
C27_ParseTimestamp ==
    (call.fn = "parse_timestamp" /\ returned.status # "pending") =>
        /\ \A r \in RelativeStrings :
            r.text = call.timestamp_str =>
                returned = [status |-> "returned",
                            value |-> [minutes |-> call.now.minutes - r.minutes,
                                       millis |-> call.now.micros \div 1000]]
        /\ \A r \in DateStrings :
            r.text = call.timestamp_str =>
                returned = [status |-> "returned",
                            value |-> [minutes |-> r.minutes, millis |-> 0]]
        /\ call.timestamp_str \in UnsupportedStrings =>
                returned = [status |-> "raised",
                            error |-> "ValueError: Supported formats"]

\* ---------------------------------------------------------------------
\* complexity_evaluator.py
\* ---------------------------------------------------------------------

\* SQL texts in mixed case: one for every choice of a leading CTE, an
\* aggregate, a window function, a subquery after FROM, and 0 to 3 joins
SqlText(cte, agg, win, sub, joins) ==
    (IF cte THEN <<"W", "i", "t", "h", " ", "c", " ", "A", "s", " ", "(", "S", "e", "l", "e", "c", "t", " ", "1", ")", " ">>
     ELSE <<>>)
    \o <<"S", "e", "l", "e", "c", "t", " ", "a">>
    \o (IF agg THEN <<",", " ", "S", "u", "m", "(", "b", ")">> ELSE <<>>)
    \o (IF win THEN <<",", " ", "R", "a", "n", "k", "(", ")", " ", "O", "v", "e", "r", " ", "(", "O", "r", "d", "e", "r", " ", "B", "y", " ", "a", ")">>
        ELSE <<>>)
    \o <<" ", "F", "r", "o", "m", " ", "t">>
    \o (IF joins >= 1 THEN <<" ", "J", "o", "i", "n", " ", "u">> ELSE <<>>)
    \o (IF joins >= 2 THEN <<" ", "j", "o", "i", "n", " ", "v">> ELSE <<>>)
    \o (IF joins >= 3 THEN <<" ", "J", "O", "I", "N", " ", "w">> ELSE <<>>)
    \o (IF sub THEN <<" ", "W", "h", "e", "r", "e", " ", "a", " ", "I", "n", " ", "(", "S", "e", "l", "e", "c", "t", " ", "a", " ", "F", "r", "o", "m", " ", "x", ")">>
        ELSE <<>>)

SqlTexts ==
    {SqlText(cte, agg, win, sub, joins) :
        cte \in BOOLEAN, agg \in BOOLEAN, win \in BOOLEAN, sub \in BOOLEAN,
        joins \in 0..3}

\* str.upper() on one character
UpperChar(c) ==
    IF \E i \in DOMAIN LowerChars : LowerChars[i] = c
    THEN UpperChars[CHOOSE i \in DOMAIN LowerChars : LowerChars[i] = c]
    ELSE c

\* the positions of s at which kw occurs
Occurrences(s, kw) ==
    {i \in 1..(Len(s) - Len(kw) + 1) : SubSeq(s, i, i + Len(kw) - 1) = kw}

\* str.count(kw): the occurrences of kw from position i on that do not
\* overlap, counted from the left
RECURSIVE Count(_, _, _)
Count(s, kw, i) ==
    LET later == {k \in Occurrences(s, kw) : k >= i}
    IN  IF later = {} THEN 0
        ELSE 1 + Count(s, kw, (CHOOSE k \in later : \A j \in later : k <= j)
                                + Len(kw))

\* lines 215-265 with has_joins set from the second join on
FallbackAnalysisSecondJoin(sql) ==
    LET sql_upper == [i \in DOMAIN sql |-> UpperChar(sql[i])]
        join_count == Count(sql_upper, <<" ", "J", "O", "I", "N", " ">>, 1)
        from_at == Occurrences(sql_upper, <<"F", "R", "O", "M">>)
        has_subqueries ==
            /\ from_at # {}
            /\ \E k \in Occurrences(sql_upper, <<"S", "E", "L", "E", "C", "T">>) :
                  \E j \in from_at : j <= k
        has_ctes == Occurrences(Strip(sql_upper), <<"W", "I", "T", "H", " ">>) \cap {1} # {}
        has_window_functions ==
            \E kw \in {<<"O", "V", "E", "R", "(">>,
                      <<"O", "V", "E", "R", " ", "(">>,
                      <<"P", "A", "R", "T", "I", "T", "I", "O", "N", " ", "B", "Y">>,
                      <<"R", "O", "W", "_", "N", "U", "M", "B", "E", "R">>,
                      <<"R", "A", "N", "K", "(">>,
                      <<"D", "E", "N", "S", "E", "_", "R", "A", "N", "K">>,
                      <<"L", "A", "G", "(">>,
                      <<"L", "E", "A", "D", "(">>} :
                Occurrences(sql_upper, kw) # {}
        has_aggregations ==
            \E kw \in {<<"G", "R", "O", "U", "P", " ", "B", "Y">>,
                      <<"S", "U", "M", "(">>,
                      <<"C", "O", "U", "N", "T", "(">>,
                      <<"A", "V", "G", "(">>,
                      <<"M", "A", "X", "(">>,
                      <<"M", "I", "N", "(">>} :
                Occurrences(sql_upper, kw) # {}
    IN  [complexity |->
            IF has_window_functions \/ has_ctes \/ join_count >= 3
                                    \/ has_subqueries
            THEN "complex"
            ELSE IF join_count > 1 \/ has_aggregations THEN "moderate"
            ELSE "simple",
         reasoning |->
            IF has_window_functions \/ has_ctes \/ join_count >= 3
                                    \/ has_subqueries
            THEN "Query contains advanced SQL features"
            ELSE IF join_count > 1 \/ has_aggregations
            THEN "Query contains JOINs or aggregations"
            ELSE "Simple query with basic SELECT/WHERE operations",
         has_joins |-> join_count > 1,
         has_subqueries |-> has_subqueries,
         has_ctes |-> has_ctes,
         has_window_functions |-> has_window_functions,
         has_aggregations |-> has_aggregations,
         join_count |-> join_count]

\* lines 215-265
FallbackAnalysis(sql) ==
    LET sql_upper == [i \in DOMAIN sql |-> UpperChar(sql[i])]
        join_count == Count(sql_upper, <<" ", "J", "O", "I", "N", " ">>, 1)
        has_joins == join_count > 0
        from_at == Occurrences(sql_upper, <<"F", "R", "O", "M">>)
        has_subqueries ==
            /\ from_at # {}
            /\ \E k \in Occurrences(sql_upper, <<"S", "E", "L", "E", "C", "T">>) :
                  \E j \in from_at : j <= k
        has_ctes == Occurrences(Strip(sql_upper), <<"W", "I", "T", "H", " ">>) \cap {1} # {}
        has_window_functions ==
            \E kw \in {<<"O", "V", "E", "R", "(">>,
                      <<"O", "V", "E", "R", " ", "(">>,
                      <<"P", "A", "R", "T", "I", "T", "I", "O", "N", " ", "B", "Y">>,
                      <<"R", "O", "W", "_", "N", "U", "M", "B", "E", "R">>,
                      <<"R", "A", "N", "K", "(">>,
                      <<"D", "E", "N", "S", "E", "_", "R", "A", "N", "K">>,
                      <<"L", "A", "G", "(">>,
                      <<"L", "E", "A", "D", "(">>} :
                Occurrences(sql_upper, kw) # {}
        has_aggregations ==
            \E kw \in {<<"G", "R", "O", "U", "P", " ", "B", "Y">>,
                      <<"S", "U", "M", "(">>,
                      <<"C", "O", "U", "N", "T", "(">>,
                      <<"A", "V", "G", "(">>,
                      <<"M", "A", "X", "(">>,
                      <<"M", "I", "N", "(">>} :
                Occurrences(sql_upper, kw) # {}
    IN  [complexity |->
            IF has_window_functions \/ has_ctes \/ join_count >= 3
                                    \/ has_subqueries
            THEN "complex"
            ELSE IF has_joins \/ has_aggregations THEN "moderate"
            ELSE "simple",
         reasoning |->
            IF has_window_functions \/ has_ctes \/ join_count >= 3
                                    \/ has_subqueries
            THEN "Query contains advanced SQL features"
            ELSE IF has_joins \/ has_aggregations
            THEN "Query contains JOINs or aggregations"
            ELSE "Simple query with basic SELECT/WHERE operations",
         has_joins |-> has_joins,
         has_subqueries |-> has_subqueries,
         has_ctes |-> has_ctes,
         has_window_functions |-> has_window_functions,
         has_aggregations |-> has_aggregations,
         join_count |-> join_count]

FallbackCalls == [fn : {"_fallback_analysis"}, sql : SqlTexts]

\* _fallback_analysis is called and returns
FallbackAnalysisReturns ==
    /\ call.fn = "_fallback_analysis"
    /\ returned.status = "pending"
    /\ returned' = [status |-> "returned", value |-> FallbackAnalysis(call.sql)]
    /\ UNCHANGED <<call, retryVars, runVars, regVars, raceVars, guidanceVars,
                   readerVars>>

\* C28: the fallback heuristic classifies COMPLEX when it detects a window
\* function, a CTE, three or more joins or a subquery, otherwise MODERATE
\* when it detects a join or an aggregation, otherwise SIMPLE, and reports
\* has_joins exactly when join_count > 0.
C28_FallbackClassification ==
    (call.fn = "_fallback_analysis" /\ returned.status = "returned") =>
        LET a == returned.value
        IN  /\ a.complexity =
                 IF \/ a.has_window_functions
                    \/ a.has_ctes
                    \/ a.join_count >= 3
                    \/ a.has_subqueries
                 THEN "complex"
                 ELSE IF a.join_count >= 1 \/ a.has_aggregations
                      THEN "moderate"
                      ELSE "simple"
            /\ a.has_joins <=> a.join_count > 0

\* one join and nothing else is MODERATE, and every combination of the
\* four other features with 0 to 3 joins is detected on some text
C28_Witness ==
    /\ call.fn = "_fallback_analysis"
    /\ returned.status = "returned"
    /\ returned.value.join_count = 1
    /\ returned.value.complexity = "moderate"
    /\ ~returned.value.has_aggregations
    /\ \A cte \in BOOLEAN, agg \in BOOLEAN, win \in BOOLEAN, sub \in BOOLEAN,
          joins \in 0..3 :
          \E sql \in SqlTexts :
              LET a == FallbackAnalysis(sql)
              IN  /\ a.has_ctes = cte
                  /\ a.has_aggregations = agg
                  /\ a.has_window_functions = win
                  /\ a.has_subqueries = sub
                  /\ a.join_count = joins

\* what the structured classifier call gives for one SQL text: an instance
\* of ComplexityAnalysis, a dict that validates as one, a dict that does
\* not (no reasoning, or a complexity outside the enumeration), a value of
\* another type, an exception, or a timeout (an exception as well)
ClassifierResults ==
    {[kind |-> "ComplexityAnalysis",
      value |-> [complexity |-> tier, reasoning |-> "classified",
                 has_joins |-> FALSE, has_subqueries |-> FALSE,
                 has_ctes |-> FALSE, has_window_functions |-> FALSE,
                 has_aggregations |-> FALSE, join_count |-> 0]] :
        tier \in {"simple", "moderate", "complex"}}
    \cup {[kind |-> "dict",
           value |-> [complexity |-> "complex", reasoning |-> "classified",
                      has_joins |-> TRUE, join_count |-> 4]],
          [kind |-> "malformed", value |-> [complexity |-> "complex"]],
          [kind |-> "malformed",
           value |-> [complexity |-> "extreme", reasoning |-> "classified"]],
          [kind |-> "other", value |-> [content |-> "complex"]],
          [kind |-> "raises", value |-> [error |-> "Exception"]],
          [kind |-> "timeout", value |-> [error |-> "TimeoutError"]]}

\* models.py 61-75: ComplexityAnalysis(**result) validates: complexity is
\* required and one of the enumeration, reasoning is required
Validates(resp) ==
    /\ "complexity" \in DOMAIN resp
    /\ resp.complexity \in {"simple", "moderate", "complex"}
    /\ "reasoning" \in DOMAIN resp

\* models.py 61-75: ComplexityAnalysis(**result), absent fields defaulted
ComplexityAnalysis(resp) ==
    [complexity |-> resp.complexity,
     reasoning |-> resp.reasoning,
     has_joins |-> IF "has_joins" \in DOMAIN resp THEN resp.has_joins
                   ELSE FALSE,
     has_subqueries |-> IF "has_subqueries" \in DOMAIN resp
                        THEN resp.has_subqueries ELSE FALSE,
     has_ctes |-> IF "has_ctes" \in DOMAIN resp THEN resp.has_ctes
                  ELSE FALSE,
     has_window_functions |-> IF "has_window_functions" \in DOMAIN resp
                              THEN resp.has_window_functions ELSE FALSE,
     has_aggregations |-> IF "has_aggregations" \in DOMAIN resp
                          THEN resp.has_aggregations ELSE FALSE,
     join_count |-> IF "join_count" \in DOMAIN resp THEN resp.join_count
                    ELSE 0]

\* lines 181-213 with the validation error of a dict left uncaught
AnalyzeQueryUncaught(sql, resp) ==
    IF resp.kind \in {"raises", "timeout"}
    THEN [status |-> "returned", value |-> FallbackAnalysis(sql)]
    ELSE IF resp.kind = "ComplexityAnalysis"
    THEN [status |-> "returned", value |-> resp.value]
    ELSE IF resp.kind \in {"dict", "malformed"}
    THEN IF Validates(resp.value)
         THEN [status |-> "returned", value |-> ComplexityAnalysis(resp.value)]
         ELSE [status |-> "raised", error |-> "ValidationError"]
    ELSE [status |-> "returned", value |-> FallbackAnalysis(sql)]

\* lines 181-213: result is what structured_llm.invoke gives; an exception
\* of the call or of ComplexityAnalysis(**result) is caught (lines 211-213)
AnalyzeQuery(sql, resp) ==
    IF resp.kind \in {"raises", "timeout"}
    THEN [status |-> "returned", value |-> FallbackAnalysis(sql)]
    ELSE IF resp.kind = "ComplexityAnalysis"
    THEN [status |-> "returned", value |-> resp.value]
    ELSE IF resp.kind \in {"dict", "malformed"}
    THEN IF Validates(resp.value)
         THEN [status |-> "returned", value |-> ComplexityAnalysis(resp.value)]
         ELSE [status |-> "returned", value |-> FallbackAnalysis(sql)]
    ELSE [status |-> "returned", value |-> FallbackAnalysis(sql)]

AnalyzeCalls ==
    [fn : {"analyze_query"}, sql : SqlTexts, result : ClassifierResults]

\* analyze_query is called and returns
AnalyzeQueryReturns ==
    /\ call.fn = "analyze_query"
    /\ returned.status = "pending"
    /\ returned' = AnalyzeQuery(call.sql, call.result)
    /\ UNCHANGED <<call, retryVars, runVars, regVars, raceVars, guidanceVars,
                   readerVars>>

\* C29: analyze_query always returns a ComplexityAnalysis and never raises;
\* when the classifier call raises, times out, or gives a value of another
\* type or a dict that does not validate, the analysis returned is exactly
\* that of the fallback heuristic on the same SQL text.
C29_AnalyzeNeverRaises ==
    (call.fn = "analyze_query" /\ returned.status # "pending") =>
        /\ returned.status = "returned"
        /\ DOMAIN returned.value =
               {"complexity", "reasoning", "has_joins", "has_subqueries",
                "has_ctes", "has_window_functions", "has_aggregations",
                "join_count"}
        /\ returned.value.complexity \in {"simple", "moderate", "complex"}
        /\ call.result.kind \in {"raises", "timeout", "other", "malformed"} =>
               returned.value = FallbackAnalysis(call.sql)

\* a dict without reasoning for a text with two joins: the fallback's
\* MODERATE is returned, not the dict's COMPLEX
C29_Witness ==
    /\ call.fn = "analyze_query"
    /\ returned.status = "returned"
    /\ call.result.kind = "malformed"
    /\ call.result.value = [complexity |-> "complex"]
    /\ returned.value.join_count = 2
    /\ returned.value.complexity = "moderate"

\* what the structured extraction call gives: an instance of
\* ParameterExtraction (with one parameter, with two parameters of one
\* name, or with none), a dict that validates as one (with a parameter, or
\* without the parameters key), a dict that does not (no parameterized_sql),
\* a value of another type, an exception, or a timeout
ExtractionResults ==
    {[kind |-> "ParameterExtraction",
      value |-> [parameters |-> ps,
                 parameterized_sql |-> "SELECT a FROM t WHERE r = :region",
                 reasoning |-> "extracted"]] :
        ps \in {<<>>,
                <<[name |-> "region", original_value |-> "EMEA"]>>,
                <<[name |-> "region", original_value |-> "EMEA"],
                  [name |-> "region", original_value |-> "APAC"]>>}}
    \cup {[kind |-> "dict",
           value |-> [parameters |->
                          <<[name |-> "region", original_value |-> "EMEA"]>>,
                      parameterized_sql |-> "SELECT a FROM t WHERE r = :region",
                      reasoning |-> "extracted"]],
          [kind |-> "dict",
           value |-> [parameterized_sql |-> "SELECT a FROM t WHERE r = :region",
                      reasoning |-> "extracted"]],
          [kind |-> "malformed", value |-> [reasoning |-> "extracted"]],
          [kind |-> "other", value |-> [content |-> "none"]],
          [kind |-> "raises", value |-> [error |-> "Exception"]],
          [kind |-> "timeout", value |-> [error |-> "TimeoutError"]]}

\* lines 118-179 giving the SQL itself back for a dict that does not validate
ExtractParametersSqlBack(sql, question, resp) ==
    LET nothing == [status |-> "returned",
                    value |-> [parameters |-> <<>>, parameterized_sql |-> None]]
    IN  IF resp.kind \in {"raises", "timeout"} THEN nothing
        ELSE IF resp.kind = "ParameterExtraction"
        THEN IF resp.value.parameters # <<>>
             THEN [status |-> "returned",
                   value |-> [parameters |-> resp.value.parameters,
                              parameterized_sql |->
                                  resp.value.parameterized_sql]]
             ELSE nothing
        ELSE IF resp.kind \in {"dict", "malformed"}
        THEN IF /\ "parameterized_sql" \in DOMAIN resp.value
                /\ "reasoning" \in DOMAIN resp.value
             THEN [status |-> "returned",
                   value |-> [parameters |->
                                  IF "parameters" \in DOMAIN resp.value
                                  THEN resp.value.parameters ELSE <<>>,
                              parameterized_sql |->
                                  resp.value.parameterized_sql]]
             ELSE [status |-> "returned",
                   value |-> [parameters |-> <<>>, parameterized_sql |-> sql]]
        ELSE nothing

\* lines 118-179: resp is what param_extraction_llm.invoke gives.  A dict
\* goes through ParameterExtraction(**result) (models.py 46-57), which
\* requires parameterized_sql and reasoning and defaults parameters to the
\* empty list; its validation error is caught like every exception (lines
\* 177-179).
ExtractParameters(sql, question, resp) ==
    LET nothing == [status |-> "returned",
                    value |-> [parameters |-> <<>>, parameterized_sql |-> None]]
    IN  IF resp.kind \in {"raises", "timeout"} THEN nothing
        ELSE IF resp.kind = "ParameterExtraction"
        THEN IF resp.value.parameters # <<>>
             THEN [status |-> "returned",
                   value |-> [parameters |-> resp.value.parameters,
                              parameterized_sql |->
                                  resp.value.parameterized_sql]]
             ELSE nothing
        ELSE IF resp.kind \in {"dict", "malformed"}
        THEN IF /\ "parameterized_sql" \in DOMAIN resp.value
                /\ "reasoning" \in DOMAIN resp.value
             THEN [status |-> "returned",
                   value |-> [parameters |->
                                  IF "parameters" \in DOMAIN resp.value
                                  THEN resp.value.parameters ELSE <<>>,
                              parameterized_sql |->
                                  resp.value.parameterized_sql]]
             ELSE nothing
        ELSE nothing

ExtractCalls ==
    [fn : {"extract_parameters"},
     sql : {SqlText(FALSE, FALSE, TRUE, FALSE, 0)},
     question : {QTopSales, QOrders},
     result : ExtractionResults]

\* extract_parameters is called and returns
ExtractParametersReturns ==
    /\ call.fn = "extract_parameters"
    /\ returned.status = "pending"
    /\ returned' = ExtractParameters(call.sql, call.question, call.result)
    /\ UNCHANGED <<call, retryVars, runVars, regVars, raceVars, guidanceVars,
                   readerVars>>

\* a SQL text together with what the classifier gives for it and the tier
\* this amounts to: three texts that the fallback classifies SIMPLE,
\* MODERATE and COMPLEX under a failing classifier, and the first of them
\* under a classifier answering each of the tiers
ClassifiedQueries ==
    {[sql |-> SqlText(FALSE, FALSE, FALSE, FALSE, 0),
      result |-> [kind |-> "raises", value |-> [error |-> "Exception"]],
      tier |-> "simple"],
     [sql |-> SqlText(FALSE, TRUE, FALSE, FALSE, 1),
      result |-> [kind |-> "raises", value |-> [error |-> "Exception"]],
      tier |-> "moderate"],
     [sql |-> SqlText(FALSE, FALSE, TRUE, FALSE, 0),
      result |-> [kind |-> "raises", value |-> [error |-> "Exception"]],
      tier |-> "complex"]}
    \cup {[sql |-> SqlText(FALSE, FALSE, FALSE, FALSE, 0),
           result |-> r,
           tier |-> r.value.complexity] :
            r \in {c \in ClassifierResults : c.kind = "ComplexityAnalysis"}}

\* what the extraction call gives inside evaluate_queries: two parameters of
\* one name, a dict without parameters, a malformed dict, an exception, a
\* timeout
EvaluatedExtractions ==
    {r \in ExtractionResults :
        \/ r.kind = "ParameterExtraction" /\ Len(r.value.parameters) = 2
        \/ r.kind = "dict" /\ "parameters" \notin DOMAIN r.value
        \/ r.kind \in {"malformed", "raises", "timeout"}}

\* evaluate_queries on up to MaxQueries queries, the i-th with message id i;
\* results are the classifier's answers, query by query, and extraction is
\* what the extraction call gives for a retained query
EvaluateCalls ==
    UNION {{[fn |-> "evaluate_queries",
             queries |-> [i \in 1..n |-> [question |-> QTopSales,
                                          sql |-> f[i].sql,
                                          message_id |-> i]],
             results |-> [i \in 1..n |-> f[i].result],
             tiers |-> [i \in 1..n |-> f[i].tier],
             complexity_threshold |-> threshold,
             extraction |-> extraction] :
                f \in [1..n -> ClassifiedQueries],
                threshold \in {"simple", "moderate", "complex"},
                extraction \in EvaluatedExtractions} :
           n \in 0..MaxQueries}

\* lines 331-335
complexity_order == [simple |-> 0, moderate |-> 1, complex |-> 2]

\* the loop of lines 340-366 retaining only what lies above the threshold
RECURSIVE EvaluateQueriesAbove(_, _, _)
EvaluateQueriesAbove(a, i, candidates_) ==
    IF i > Len(a.queries) THEN candidates_
    ELSE LET query == a.queries[i]
             analysis == AnalyzeQuery(query.sql, a.results[i]).value
         IN  IF complexity_order[analysis.complexity]
                    > complexity_order[a.complexity_threshold]
             THEN EvaluateQueriesAbove(a, i + 1, Append(candidates_,
                      [question |-> query.question,
                       sql |-> query.sql,
                       complexity |-> analysis,
                       message_id |-> query.message_id,
                       parameters |-> ExtractParameters(query.sql,
                           query.question, a.extraction).value.parameters,
                       parameterized_sql |-> ExtractParameters(query.sql,
                           query.question, a.extraction).value.parameterized_sql]))
             ELSE EvaluateQueriesAbove(a, i + 1, candidates_)

\* lines 316-372: the loop over the queries from the i-th on
RECURSIVE EvaluateQueries(_, _, _)
EvaluateQueries(a, i, candidates_) ==
    IF i > Len(a.queries) THEN candidates_
    ELSE LET query == a.queries[i]
             analysis == AnalyzeQuery(query.sql, a.results[i]).value
         IN  IF complexity_order[analysis.complexity]
                    >= complexity_order[a.complexity_threshold]
             THEN EvaluateQueries(a, i + 1, Append(candidates_,
                      [question |-> query.question,
                       sql |-> query.sql,
                       complexity |-> analysis,
                       message_id |-> query.message_id,
                       parameters |-> ExtractParameters(query.sql,
                           query.question, a.extraction).value.parameters,
                       parameterized_sql |-> ExtractParameters(query.sql,
                           query.question, a.extraction).value.parameterized_sql]))
             ELSE EvaluateQueries(a, i + 1, candidates_)

\* evaluate_queries is called and returns
EvaluateQueriesReturns ==
    /\ call.fn = "evaluate_queries"
    /\ returned.status = "pending"
    /\ returned' = [status |-> "returned",
                    value |-> EvaluateQueries(call, 1, <<>>)]
    /\ UNCHANGED <<call, retryVars, runVars, regVars, raceVars, guidanceVars,
                   readerVars>>

\* the message ids of the queries whose tier is at least the threshold,
\* under SIMPLE < MODERATE < COMPLEX
Retained ==
    {i \in 1..Len(call.queries) :
        \/ call.tiers[i] = "complex"
        \/ call.tiers[i] = "moderate" /\ call.complexity_threshold # "complex"
        \/ call.complexity_threshold = "simple"}

\* C30: evaluate_queries returns exactly the queries whose classified tier
\* is at least the threshold, each once and in input order, each with its
\* own question, SQL and classified tier; hence a query classified COMPLEX
\* is retained at every threshold and one classified SIMPLE only at
\* threshold SIMPLE.
C30_ThresholdSubsequence ==
    (call.fn = "evaluate_queries" /\ returned.status # "pending") =>
        LET value == returned.value
        IN  /\ returned.status = "returned"
            /\ {value[k].message_id : k \in 1..Len(value)} = Retained
            /\ \A j, k \in 1..Len(value) :
                   j < k => value[j].message_id < value[k].message_id
            /\ \A k \in 1..Len(value) :
                   LET query == call.queries[value[k].message_id]
                   IN  /\ value[k].question = query.question
                       /\ value[k].sql = query.sql
                       /\ value[k].complexity.complexity
                              = call.tiers[value[k].message_id]
            /\ \A i \in 1..Len(call.queries) :
                   /\ call.tiers[i] = "complex" => i \in Retained
                   /\ call.tiers[i] = "simple" =>
                          (i \in Retained <=> call.complexity_threshold = "simple")

\* of a COMPLEX, a SIMPLE and a MODERATE query, in this order, threshold
\* MODERATE retains the first and the third
C30_Witness ==
    /\ call.fn = "evaluate_queries"
    /\ returned.status = "returned"
    /\ call.tiers = <<"complex", "simple", "moderate">>
    /\ call.complexity_threshold = "moderate"
    /\ Len(returned.value) = 2
    /\ returned.value[1].message_id = 1
    /\ returned.value[2].message_id = 3

\* C31: extract_parameters never raises; when the extraction call raises,
\* times out, or gives a value of another type or a dict that does not
\* validate, it returns an empty parameter list and no parameterized SQL,
\* and evaluate_queries still assembles the candidate with the SQL of its
\* query.
C31_ExtractNeverRaises ==
    /\ (call.fn = "extract_parameters" /\ returned.status # "pending") =>
          /\ returned.status = "returned"
          /\ call.result.kind \in {"raises", "timeout", "other", "malformed"} =>
                 returned.value = [parameters |-> <<>>,
                                   parameterized_sql |-> None]
    /\ (call.fn = "evaluate_queries" /\ returned.status # "pending") =>
          /\ returned.status = "returned"
          /\ \A k \in 1..Len(returned.value) :
                 LET candidate == returned.value[k]
                 IN  /\ candidate.sql = call.queries[candidate.message_id].sql
                     /\ call.extraction.kind
                            \in {"raises", "timeout", "other", "malformed"} =>
                            /\ candidate.parameters = <<>>
                            /\ candidate.parameterized_sql = None

\* the extraction call times out for the one retained query: the candidate
\* has the query's SQL, no parameters and no parameterized SQL
C31_Witness ==
    /\ call.fn = "evaluate_queries"
    /\ returned.status = "returned"
    /\ call.extraction.kind = "timeout"
    /\ Len(call.queries) = 1
    /\ Len(returned.value) = 1
    /\ returned.value[1].sql = call.queries[1].sql
    /\ returned.value[1].parameters = <<>>
    /\ returned.value[1].parameterized_sql = None

\* C32: the parameters extract_parameters returns, and the parameters of
\* every candidate evaluate_queries returns, have pairwise distinct names.
C32_DistinctParameterNames ==
    LET Distinct(ps) ==
            \A i, j \in 1..Len(ps) : ps[i].name = ps[j].name => i = j
    IN  /\ (call.fn = "extract_parameters" /\ returned.status = "returned") =>
              Distinct(returned.value.parameters)
        /\ (call.fn = "evaluate_queries" /\ returned.status = "returned") =>
              \A k \in 1..Len(returned.value) :
                  Distinct(returned.value[k].parameters)

\* C39: whenever extract_parameters returns an empty parameter list it
\* returns no parameterized SQL, and no candidate evaluate_queries returns
\* has a parameterized SQL with an empty parameter list.
C39_NoSqlWithoutParameters ==
    /\ (call.fn = "extract_parameters" /\ returned.status = "returned") =>
          (returned.value.parameters = <<>> =>
               returned.value.parameterized_sql = None)
    /\ (call.fn = "evaluate_queries" /\ returned.status = "returned") =>
          \A k \in 1..Len(returned.value) :
              returned.value[k].parameters = <<>> =>
                  returned.value[k].parameterized_sql = None

\* the five types the extraction prompt allows (complexity_evaluator.py 61,
\* models.py 36-38)
DeclaredTypes ==
    {<<"S", "t", "r", "i", "n", "g">>,
     <<"D", "a", "t", "e">>,
     <<"D", "a", "t", "e", " ", "a", "n", "d", " ", "T", "i", "m", "e">>,
     <<"D", "e", "c", "i", "m", "a", "l">>,
     <<"I", "n", "t", "e", "g", "e", "r">>}

FormatCalls ==
    [fn : {"_format_default_value"},
     param : [sql_type : DeclaredTypes,
              default_value : {<<>>} \cup
                  {<<v>> : v \in {<<"E", "M", "E", "A">>,
                              <<"O", "'", "H", "a", "r", "e">>,
                              <<"2", "0", "2", "4", "-", "0", "1", "-", "0", "1">>,
                              <<"1", "0", "0", "0">>,
                              <<"1", "0", ".", "5">>}}]]

\* str.replace("'", "''")
RECURSIVE EscapeQuotes(_)
EscapeQuotes(s) ==
    IF s = <<>> THEN <<>>
    ELSE (IF Head(s) = "'" THEN <<"'", "'">> ELSE <<Head(s)>>)
         \o EscapeQuotes(Tail(s))

\* lines 667-693; default_value is <<>> for None
FormatDefaultValue(param) ==
    LET sql_type == [i \in DOMAIN param.sql_type |-> UpperChar(param.sql_type[i])]
    IN  IF param.default_value = <<>> THEN <<"N", "U", "L", "L">>
        ELSE IF sql_type \in {<<"S", "T", "R", "I", "N", "G">>,
                           <<"V", "A", "R", "C", "H", "A", "R">>,
                           <<"C", "H", "A", "R">>,
                           <<"T", "E", "X", "T">>}
        THEN <<"'">> \o EscapeQuotes(param.default_value[1]) \o <<"'">>
        ELSE IF sql_type \in {<<"D", "A", "T", "E">>,
                           <<"T", "I", "M", "E", "S", "T", "A", "M", "P">>,
                           <<"D", "A", "T", "E", "T", "I", "M", "E">>}
        THEN <<"'">> \o param.default_value[1] \o <<"'">>
        ELSE param.default_value[1]

\* _format_default_value is called and returns
FormatDefaultValueReturns ==
    /\ call.fn = "_format_default_value"
    /\ returned.status = "pending"
    /\ returned' = [status |-> "returned",
                    value |-> FormatDefaultValue(call.param)]
    /\ UNCHANGED <<call, retryVars, runVars, regVars, raceVars, guidanceVars,
                   readerVars>>

\* C36: the default value is emitted between single quotes for the declared
\* types String, Date and Date and Time, bare for Decimal and Integer, and
\* as NULL when the parameter has no default.
C36_DefaultQuoting ==
    (call.fn = "_format_default_value" /\ returned.status = "returned") =>
        LET value == returned.value
            default == call.param.default_value
        IN  IF default = <<>> THEN value = <<"N", "U", "L", "L">>
            ELSE IF call.param.sql_type \in
                        {<<"D", "e", "c", "i", "m", "a", "l">>,
                         <<"I", "n", "t", "e", "g", "e", "r">>}
            THEN value = default[1]
            ELSE /\ Len(value) >= Len(default[1]) + 2
                 /\ value[1] = "'"
                 /\ value[Len(value)] = "'"

\* ---------------------------------------------------------------------
\* main.py: run and main
\* ---------------------------------------------------------------------

\* what create_all returns to run: the outcomes of the three kinds
CreateAllResults ==
    {[trusted_results |-> <<>>, uc_results |-> <<>>, register_results |-> <<>>],
     [trusted_results |->
          <<[success |-> TRUE, asset_type |-> "trusted_asset",
             name |-> "Top 5 sales", error |-> None]>>,
      uc_results |->
          <<[success |-> TRUE, asset_type |-> "uc_function",
             name |-> "top_5_sales", error |-> None]>>,
      register_results |->
          <<[success |-> TRUE, asset_type |-> "uc_function_registration",
             name |-> "main.f.top_5_sales", error |-> None]>>],
     [trusted_results |->
          <<[success |-> FALSE, asset_type |-> "trusted_asset",
             name |-> "Top 5 sales", error |-> "Failed to update space"]>>,
      uc_results |->
          <<[success |-> TRUE, asset_type |-> "uc_function",
             name |-> "top_5_sales", error |-> None],
            [success |-> FALSE, asset_type |-> "uc_function",
             name |-> "orders_by_day", error |-> "SQL execution failed"]>>,
      register_results |->
          <<[success |-> FALSE, asset_type |-> "uc_function_registration",
             name |-> "main.f.top_5_sales", error |-> None]>>]}

\* the settings and the surroundings of one run: extraction raises (while
\* listing the conversations or the messages of one) or returns up to
\* MaxQueries queries; results, extraction_result and created are what the
\* classifier, the extraction call and create_all give
RunSettings ==
    UNION {[extraction : {[kind |-> "returned",
                           queries |-> [i \in 1..n |->
                                           [question |-> QTopSales,
                                            sql |-> f[i].sql,
                                            message_id |-> i]],
                           results |-> [i \in 1..n |-> f[i].result]] :
                            f \in [1..n -> ClassifiedQueries]},
            max_conversations : {<<>>, <<0>>, <<5>>},
            complexity_threshold : {"moderate", "complex"},
            extraction_result : {r \in ExtractionResults : r.kind = "raises"},
            created : CreateAllResults] : n \in 0..MaxQueries}
    \cup [extraction : {[kind |-> "raises", error |-> "list_conversations"],
                        [kind |-> "raises", error |-> "list_messages"]},
          max_conversations : {<<>>, <<0>>, <<5>>},
          complexity_threshold : {"moderate", "complex"},
          extraction_result : {r \in ExtractionResults : r.kind = "raises"},
          created : CreateAllResults]

\* main.py 87-98 counting the conversations asked for
FailedExtractionReportCounting(a) ==
    [total_conversations |-> IF a.max_conversations = <<>> THEN 0
                             ELSE a.max_conversations[1],
     total_messages |-> 0,
     queries_extracted |-> 0,
     complex_queries |-> 0,
     trusted_assets_created |-> 0,
     uc_functions_created |-> 0,
     uc_functions_registered |-> 0,
     errors |-> <<"Failed to extract queries">>]

\* main.py 84-98: the report returned when extract_all_queries raises
FailedExtractionReport(a) ==
    [total_conversations |-> 0,
     total_messages |-> 0,
     queries_extracted |-> 0,
     complex_queries |-> 0,
     trusted_assets_created |-> 0,
     uc_functions_created |-> 0,
     uc_functions_registered |-> 0,
     errors |-> <<"Failed to extract queries">>]

\* main.py 25-192.  calls lists what run called, in order.  The
\* constructor of ComplexityEvaluator (complexity_evaluator.py 83-103) has
\* the parameters model, temperature and max_tokens; run passes model and
\* optimize_sql (line 116), for which Python raises TypeError.
Run(a) ==
    LET max_or(n) == IF a.max_conversations \in {<<>>, <<0>>} THEN n
                     ELSE a.max_conversations[1]
        Succeeded(rs) == Len(SelectSeq(rs, LAMBDA r : r.success))
        Errors(rs) == SelectSeq(rs, LAMBDA r : ~r.success /\ r.error # None)
        Zero(conversations_, messages) ==
            [total_conversations |-> conversations_,
             total_messages |-> messages,
             queries_extracted |-> messages,
             complex_queries |-> 0,
             trusted_assets_created |-> 0,
             uc_functions_created |-> 0,
             uc_functions_registered |-> 0,
             errors |-> <<>>]
    IN  IF a.extraction.kind = "raises"
        THEN [status |-> "returned", value |-> FailedExtractionReport(a),
              calls |-> <<"extract_all_queries">>]
        ELSE IF a.extraction.queries = <<>>
        THEN [status |-> "returned", value |-> Zero(max_or(0), 0),
              calls |-> <<"extract_all_queries">>]
        ELSE IF ~({"model", "optimize_sql"}
                      \subseteq {"model", "temperature", "max_tokens"})
        THEN [status |-> "raised", error |-> "TypeError",
              calls |-> <<"extract_all_queries", "ComplexityEvaluator">>]
        ELSE LET queries_ == a.extraction.queries
                 candidates_ ==
                     EvaluateQueries(
                         [queries |-> queries_,
                          results |-> a.extraction.results,
                          complexity_threshold |-> a.complexity_threshold,
                          extraction |-> a.extraction_result], 1, <<>>)
                 made == a.created
                 every == made.trusted_results \o made.uc_results
                              \o made.register_results
             IN  IF candidates_ = <<>>
                 THEN [status |-> "returned",
                       value |-> Zero(max_or(0), Len(queries_)),
                       calls |-> <<"extract_all_queries", "ComplexityEvaluator",
                                   "evaluate_queries">>]
                 ELSE [status |-> "returned",
                       value |->
                           [total_conversations |-> max_or(Len(queries_)),
                            total_messages |-> Len(queries_),
                            queries_extracted |-> Len(queries_),
                            complex_queries |-> Len(candidates_),
                            trusted_assets_created |->
                                Succeeded(made.trusted_results),
                            uc_functions_created |-> Succeeded(made.uc_results),
                            uc_functions_registered |->
                                Succeeded(made.register_results),
                            errors |-> [i \in DOMAIN Errors(every) |->
                                           <<Errors(every)[i].asset_type,
                                             Errors(every)[i].name,
                                             Errors(every)[i].error>>]],
                       calls |-> <<"extract_all_queries", "ComplexityEvaluator",
                                   "evaluate_queries", "create_all">>]

\* main.py 351-381: the exit status main returns around run
Main(a) ==
    LET report == Run(a)
    IN  IF report.status = "raised"
        THEN [status |-> "returned", value |-> 1, calls |-> report.calls]
        ELSE [status |-> "returned",
              value |-> IF report.value.errors # <<>> THEN 1 ELSE 0,
              calls |-> report.calls]

RunCalls == [fn : {"run", "main"}, settings : RunSettings]

\* run is called and returns or raises
RunReturns ==
    /\ call.fn = "run"
    /\ returned.status = "pending"
    /\ returned' = Run(call.settings)
    /\ UNCHANGED <<call, retryVars, runVars, regVars, raceVars, guidanceVars,
                   readerVars>>

\* main is called and returns its exit status
MainReturns ==
    /\ call.fn = "main"
    /\ returned.status = "pending"
    /\ returned' = Main(call.settings)
    /\ UNCHANGED <<call, retryVars, runVars, regVars, raceVars, guidanceVars,
                   readerVars>>

\* C33: run always returns a report and never raises, in particular when
\* extraction yields at least one query.
C33_RunAlwaysReports ==
    (call.fn = "run" /\ returned.status # "pending") =>
        returned.status = "returned"

\* C34: when extraction raises, run calls neither the classification nor
\* the materialization and returns a report whose counts are all zero and
\* whose errors list has exactly one entry.
C34_ExtractionFailureReport ==
    (/\ call.fn = "run"
     /\ returned.status # "pending"
     /\ call.settings.extraction.kind = "raises") =>
        /\ returned.status = "returned"
        /\ returned.calls = <<"extract_all_queries">>
        /\ returned.value.total_conversations = 0
        /\ returned.value.total_messages = 0
        /\ returned.value.queries_extracted = 0
        /\ returned.value.complex_queries = 0
        /\ returned.value.trusted_assets_created = 0
        /\ returned.value.uc_functions_created = 0
        /\ returned.value.uc_functions_registered = 0
        /\ Len(returned.value.errors) = 1

\* listing the messages of a conversation raised in a run limited to five
\* conversations
C34_Witness ==
    /\ call.fn = "run"
    /\ returned.status = "returned"
    /\ call.settings.extraction.kind = "raises"
    /\ call.settings.extraction.error = "list_messages"
    /\ call.settings.max_conversations = <<5>>
    /\ Len(returned.value.errors) = 1

\* C35: when a query of the run is retained, so that materialization is
\* due, run returns a report whose three counts are the numbers of outcomes
\* of each kind with success, and whose errors list has one entry per
\* outcome without success that has an error text; main's exit status is
\* non-zero exactly when the report's errors list is non-empty.
C35_ReportCounts ==
    LET a == call.settings
        due == /\ a.extraction.kind = "returned"
               /\ \E i \in 1..Len(a.extraction.queries) :
                      AnalyzeQuery(a.extraction.queries[i].sql,
                                   a.extraction.results[i]).value.complexity
                          \in {"complex", a.complexity_threshold}
        made == a.created
        Succeeded(rs) == Cardinality({i \in DOMAIN rs : rs[i].success})
        failed == {<<k, i>> \in {1, 2, 3} \X (1..2) :
                      LET rs == <<made.trusted_results, made.uc_results,
                                  made.register_results>>[k]
                      IN  /\ i <= Len(rs)
                          /\ ~rs[i].success
                          /\ rs[i].error # None}
    IN  /\ (call.fn = "run" /\ returned.status # "pending" /\ due) =>
              /\ returned.status = "returned"
              /\ returned.value.trusted_assets_created
                     = Succeeded(made.trusted_results)
              /\ returned.value.uc_functions_created = Succeeded(made.uc_results)
              /\ returned.value.uc_functions_registered
                     = Succeeded(made.register_results)
              /\ Len(returned.value.errors) = Cardinality(failed)
        /\ (call.fn = "main" /\ returned.status # "pending" /\ due) =>
              (returned.value # 0 <=> Cardinality(failed) > 0)

\* ------------------------------------------------------------------------
\* The sections of the document (SpecRegistry)
\* ------------------------------------------------------------------------
\* the examples write of this run was made and did not fail
ExamplesWrittenInRun ==
    /\ \E k \in DOMAIN writes : writes[k] = "examples"
    /\ ~BatchFailed(trusted_results)

\* C37: the examples write leaves the function identifiers of the document
\* as they were, the functions write leaves the example entries as they
\* were, no other step changes the stored document, and after the functions
\* write of a run the examples that the same run wrote earlier are still in
\* the document.
C37_WritesKeepOtherSections ==
    /\ [][ExamplesWrittenStep =>
            registry'.functions = registry.functions]_vars
    /\ [][FunctionsWrittenStep =>
            registry'.examples = registry.examples]_vars
    /\ [][registry' # registry =>
            ExamplesWrittenStep \/ FunctionsWrittenStep]_vars
    /\ [][(FunctionsWrittenStep /\ ExamplesWrittenInRun) =>
            \A k \in DOMAIN candidates_to_process :
               Known(registry'.examples,
                     candidates_to_process[k].question)]_vars

\* a run wrote examples and then function identifiers, and the stored
\* document has both
C37_Witness ==
    /\ phase = "returned"
    /\ writes = <<"examples", "functions">>
    /\ ExamplesWrittenInRun
    /\ ~BatchFailed(register_results)
    /\ registry = config
    /\ candidates_to_process # <<>>
    /\ \A k \in DOMAIN candidates_to_process :
          Known(registry.examples, candidates_to_process[k].question)
    /\ \E k \in DOMAIN created_functions :
          \E j \in DOMAIN registry.functions :
             registry.functions[j].identifier = created_functions[k]

\* the step in which create_trusted_assets returns
CreateTrustedAssetsReturns ==
    /\ phase \in {"start", "guidance", "writing_examples"}
    /\ phase' = "create_all"
    /\ create_sql_instructions

Successes(rs) == Cardinality({k \in DOMAIN rs : rs[k].success})

\* the entries that the call stored: those of the written list that are not
\* entries kept from the list read; none when update_space did not return
StoredEntries ==
    IF ExamplesWrittenStep
    THEN LET kept == DeleteEach(registry.examples,
                                SortedDescending(indices_to_remove)).list
         IN  Cardinality({j \in DOMAIN registry'.examples :
                \A i \in DOMAIN kept : kept[i] # registry'.examples[j]})
    ELSE 0

\* C38: when create_trusted_assets returns from a call without dry_run, it
\* returns as many outcomes with success = TRUE as the call added entries to
\* the stored examples.
C38_SuccessesAreStored ==
    [][(CreateTrustedAssetsReturns /\ ~dry_run) =>
          Successes(trusted_results') = StoredEntries]_vars

\* ------------------------------------------------------------------------
\* The statements of consecutive attempts (SpecRetry)
\* ------------------------------------------------------------------------
\* the step in which the except handler has the answer of the correction
CorrectionStep == pc = "correct" /\ pc' # "correct"

\* the fallback of lines 844-857 applies
FallbackApplies == cand.parameters # <<>> /\ attempt = 0

\* C40: two consecutive attempts never submit the same create statement;
\* the statement of a retry is the correction, which differs from the
\* statement that just failed, or the zero-parameter fallback; and when
\* the correction raised, was empty or was the failing statement itself and
\* the fallback does not apply, the call returns without another attempt.
C40_NoStatementRepeated ==
    /\ [](\A k \in DOMAIN statements :
            k > 1 => statements[k].statement # statements[k - 1].statement)
    /\ [][(CorrectionStep /\ pc' = "submit") =>
            \/ /\ current_sql' = corrected_sql'
               /\ corrected_sql' \notin {None, "", current_sql}
            \/ /\ current_sql' = ZeroParamSql
               /\ FallbackApplies]_vars
    /\ [][(/\ CorrectionStep
           /\ corrected_sql' \in {None, "", current_sql}
           /\ ~FallbackApplies) =>
            /\ pc' = "done"
            /\ ~result'.success
            /\ statements' = statements]_vars
    /\ [][pc = "done" => Len(statements') = Len(statements)]_vars

\* a call made three attempts: the fallback after an unchanged correction,
\* then a corrected statement
C40_Witness ==
    /\ Len(statements) = 3
    /\ statements[1].statement = ParamSql
    /\ statements[2].statement = ZeroParamSql
    /\ statements[3].statement \in FixedSqls
    /\ pc = "done"

\* one call of one of the functions
InitCalls ==
    /\ RetryIdle
    /\ RunIdle
    /\ RegistryIdle
    /\ RaceIdle
    /\ GuidanceIdle
    /\ ReaderIdle
    /\ call \in ListCalls \cup ParseCalls \cup FallbackCalls \cup AnalyzeCalls
                 \cup ExtractCalls \cup EvaluateCalls \cup FormatCalls
                 \cup RunCalls
    /\ returned = [status |-> "pending"]

NextCalls ==
    \/ ListConversationsReturns
    \/ ParseTimestampReturns
    \/ FallbackAnalysisReturns
    \/ AnalyzeQueryReturns
    \/ ExtractParametersReturns
    \/ EvaluateQueriesReturns
    \/ FormatDefaultValueReturns
    \/ RunReturns
    \/ MainReturns

SpecCalls == InitCalls /\ [][NextCalls]_vars

====
